---- MODULE Spec2Model ----
(***************************************************************************)
(* A model of the career-guidance assistant (src/main.py, with the earlier *)
(* src/original.py where the two differ): the guidance generator with its  *)
(* tolerant JSON extraction, schema validation and fallback synthesis.     *)
(*                                                                         *)
(* Text is a TLA+ string, read one character at a time with SubSeq.  A     *)
(* Python value (what json.loads returns, what a pydantic model holds) is  *)
(* a record [t, s, k, n]: t the kind, s the text of a string or number,    *)
(* k the items of a list or the values of a dict, n the keys of a dict.    *)
(***************************************************************************)
EXTENDS Naturals, Sequences, FiniteSets, TLC

(***************************************************************************)
(* Python values                                                           *)
(***************************************************************************)
PyNone == [t |-> "None", s |-> "", k |-> <<>>, n |-> <<>>]

PyBool(b) == [t |-> IF b THEN "True" ELSE "False", s |-> "", k |-> <<>>, n |-> <<>>]

PyStr(x) == [t |-> "str", s |-> x, k |-> <<>>, n |-> <<>>]

PyNum(x) == [t |-> "num", s |-> x, k |-> <<>>, n |-> <<>>]

PyList(items) == [t |-> "list", s |-> "", k |-> items, n |-> <<>>]

PyDict(keys, vals) == [t |-> "dict", s |-> "", k |-> vals, n |-> keys]

\* A raised exception, carried as a value; s names the exception.
PyRaise(x) == [t |-> "raise", s |-> x, k |-> <<>>, n |-> <<>>]

Raised(v) == v.t = "raise"

\* The element of a one-element set.  The({e(v) : v \in {x}}) is e(x) with
\* x evaluated once, however often e uses it.
The(S) == CHOOSE v \in S : TRUE

\* The position of key in a sequence of keys, 0 when it is absent.
RECURSIVE KeyIndex(_, _, _)
KeyIndex(keys, key, i) ==
    IF i > Len(keys) THEN 0
    ELSE IF keys[i] = key THEN i
    ELSE KeyIndex(keys, key, i + 1)

HasKey(d, key) == KeyIndex(d.n, key, 1) # 0

\* d[key]
Get(d, key) == d.k[KeyIndex(d.n, key, 1)]

\* d[key] = val on the (keys, vals) of a dict: a repeated key keeps its
\* place and takes the later value.
DictSet(d, key, val) ==
    LET at == KeyIndex(d.n, key, 1) IN
    IF at = 0 THEN PyDict(Append(d.n, key), Append(d.k, val))
    ELSE PyDict(d.n, [d.k EXCEPT ![at] = val])

(***************************************************************************)
(* Characters                                                              *)
(***************************************************************************)
\* s[i] in 1-based positions; "" past either end.
Ch(s, i) == IF i >= 1 /\ i <= Len(s) THEN SubSeq(s, i, i) ELSE ""

\* s[a:b] of Python in 1-based inclusive positions a..b, clipped to s.
Slice(s, a, b) ==
    LET lo == IF a < 1 THEN 1 ELSE a
        hi == IF b > Len(s) THEN Len(s) ELSE b
    IN IF hi < lo THEN "" ELSE SubSeq(s, lo, hi)

Digits == {"0", "1", "2", "3", "4", "5", "6", "7", "8", "9"}

Letters ==
    {"a", "b", "c", "d", "e", "f", "g", "h", "i", "j", "k", "l", "m",
     "n", "o", "p", "q", "r", "s", "t", "u", "v", "w", "x", "y", "z",
     "A", "B", "C", "D", "E", "F", "G", "H", "I", "J", "K", "L", "M",
     "N", "O", "P", "Q", "R", "S", "T", "U", "V", "W", "X", "Y", "Z"}

\* json's WHITESPACE, [ \t\n\r]*
JsonWhitespace == {" ", "\t", "\n", "\r"}

\* re's \s on the characters of the model
ReWhitespace == {" ", "\t", "\n", "\r", "\f"}

\* The characters json rejects inside a string literal (strict mode)
ControlChars == {"\t", "\n", "\r", "\f"}

RECURSIVE SkipJsonWs(_, _)
SkipJsonWs(s, i) ==
    IF Ch(s, i) \in JsonWhitespace THEN SkipJsonWs(s, i + 1) ELSE i

RECURSIVE SkipReWs(_, _)
SkipReWs(s, i) ==
    IF Ch(s, i) \in ReWhitespace THEN SkipReWs(s, i + 1) ELSE i

RECURSIVE SkipDigits(_, _)
SkipDigits(s, i) ==
    IF Ch(s, i) \in Digits THEN SkipDigits(s, i + 1) ELSE i

\* The least and the greatest of a non-empty set of positions.
Min(P) == CHOOSE k \in P : \A j \in P : k <= j

Max(P) == CHOOSE k \in P : \A j \in P : j <= k

\* The first position of a..b whose character is in C, 0 when there is
\* none: the left half of the range is searched before the right one.
RECURSIVE FirstIn(_, _, _, _)
FirstIn(s, C, a, b) ==
    IF a > b THEN 0
    ELSE IF a = b THEN (IF Ch(s, a) \in C THEN a ELSE 0)
    ELSE The({ IF left # 0 THEN left ELSE FirstIn(s, C, (a + b) \div 2 + 1, b)
               : left \in {FirstIn(s, C, a, (a + b) \div 2)} })

\* The last position of a..b whose character is in C, 0 when there is none.
RECURSIVE LastIn(_, _, _, _)
LastIn(s, C, a, b) ==
    IF a > b THEN 0
    ELSE IF a = b THEN (IF Ch(s, a) \in C THEN a ELSE 0)
    ELSE The({ IF right # 0 THEN right ELSE LastIn(s, C, a, (a + b) \div 2)
               : right \in {LastIn(s, C, (a + b) \div 2 + 1, b)} })

\* str.find(c) from position i on, as a 1-based position, 0 when c does not
\* occur.
Find(s, c, i) == FirstIn(s, {c}, i, Len(s))

\* str.rfind(c) up to position i, as a 1-based position, 0 when c does not
\* occur.
RFind(s, c, i) == LastIn(s, {c}, 1, i)

(***************************************************************************)
(* json.loads: the scanner of the standard library, on which               *)
(* _extract_json_from_response rests.  A scan returns [ok, v, i]: whether  *)
(* it succeeded, the value, and the position after it.                     *)
(***************************************************************************)
ScanFail == [ok |-> FALSE, v |-> PyNone, i |-> 0]

ScanOk(v, i) == [ok |-> TRUE, v |-> v, i |-> i]

\* The character an escape \c stands for; "" when \c is no simple escape.
Backslash(c) ==
    IF c = "\"" THEN "\""
    ELSE IF c = "\\" THEN "\\"
    ELSE IF c = "/" THEN "/"
    ELSE IF c = "n" THEN "\n"
    ELSE IF c = "r" THEN "\r"
    ELSE IF c = "t" THEN "\t"
    ELSE IF c = "f" THEN "\f"
    ELSE ""

\* The string literal whose opening quote is just before position i, after
\* the content acc: the scan goes chunk by chunk, each up to the next quote,
\* backslash or control character (STRINGCHUNK).
RECURSIVE py_scanstring(_, _, _)
py_scanstring(s, i, acc) ==
    The({ IF end = 0 THEN ScanFail
          ELSE IF Ch(s, end) = "\""
              THEN ScanOk(PyStr(acc \o Slice(s, i, end - 1)), end + 1)
          ELSE IF Ch(s, end) = "\\" /\ Backslash(Ch(s, end + 1)) # ""
              THEN py_scanstring(s, end + 2,
                       acc \o Slice(s, i, end - 1) \o Backslash(Ch(s, end + 1)))
          ELSE ScanFail
          : end \in {FirstIn(s, {"\"", "\\"} \cup ControlChars, i, Len(s))} })

\* NUMBER_RE, (-?(?:0|[1-9]\d*))(\.\d+)?([eE][-+]?\d+)? : the position after
\* the number that starts at i, i itself when none does.
NumberEnd(s, i) ==
    LET d == IF Ch(s, i) = "-" THEN i + 1 ELSE i
        int == IF Ch(s, d) = "0" THEN d + 1
               ELSE IF Ch(s, d) \in Digits THEN SkipDigits(s, d)
               ELSE i
        frac == IF int # i /\ Ch(s, int) = "." /\ Ch(s, int + 1) \in Digits
                THEN SkipDigits(s, int + 1) ELSE int
        sign == IF Ch(s, frac + 1) \in {"-", "+"} THEN frac + 2 ELSE frac + 1
        exp == IF int # i /\ Ch(s, frac) \in {"e", "E"} /\ Ch(s, sign) \in Digits
               THEN SkipDigits(s, sign) ELSE frac
    IN exp

RECURSIVE scan_once(_, _)
RECURSIVE JSONObject(_, _, _)
RECURSIVE JSONArray(_, _, _)

\* Where the value of the member starts whose key opens just before
\* position i: after the key, the colon and any whitespace; 0 when the key
\* or the colon is missing.
ValueStart(s, i) ==
    The({ CASE ~key.ok -> 0
            [] key.ok /\ Ch(s, SkipJsonWs(s, key.i)) # ":" -> 0
            [] OTHER -> SkipJsonWs(s, SkipJsonWs(s, key.i) + 1)
          : key \in {py_scanstring(s, i, "")} })

\* After the member key: val of an object that holds d so far: its closing
\* brace, or a comma and the next key.
ObjectNext(s, d, key, val) ==
    CASE ~key.ok \/ ~val.ok -> ScanFail
      [] key.ok /\ val.ok /\ Ch(s, SkipJsonWs(s, val.i)) = "}" ->
            ScanOk(DictSet(d, key.v.s, val.v), SkipJsonWs(s, val.i) + 1)
      [] /\ key.ok /\ val.ok /\ Ch(s, SkipJsonWs(s, val.i)) = ","
         /\ Ch(s, SkipJsonWs(s, SkipJsonWs(s, val.i) + 1)) = "\"" ->
            JSONObject(s, SkipJsonWs(s, SkipJsonWs(s, val.i) + 1) + 1,
                       DictSet(d, key.v.s, val.v))
      [] OTHER -> ScanFail

\* The members of an object into the dict d; i is just after the opening
\* quote of a key.
JSONObject(s, i, d) ==
    The({ ObjectNext(s, sofar, key, val)
          : sofar \in {d},
            key \in {py_scanstring(s, i, "")},
            val \in {scan_once(s, ValueStart(s, i))} })

\* After the item val of an array that holds items so far: its closing
\* bracket, or a comma and the next item.
ArrayNext(s, items, val) ==
    CASE ~val.ok -> ScanFail
      [] val.ok /\ Ch(s, SkipJsonWs(s, val.i)) = "]" ->
            ScanOk(PyList(Append(items, val.v)), SkipJsonWs(s, val.i) + 1)
      [] val.ok /\ Ch(s, SkipJsonWs(s, val.i)) = "," ->
            JSONArray(s, SkipJsonWs(s, SkipJsonWs(s, val.i) + 1),
                      Append(items, val.v))
      [] OTHER -> ScanFail

\* The items of an array after those of items; i is at the first character
\* of an item.
JSONArray(s, i, items) ==
    The({ ArrayNext(s, sofar, val)
          : sofar \in {items}, val \in {scan_once(s, i)} })

scan_once(s, i) ==
    LET c == Ch(s, i) IN
    IF c = "\"" THEN py_scanstring(s, i + 1, "")
    ELSE IF c = "{"
        THEN LET j == SkipJsonWs(s, i + 1) IN
             IF Ch(s, j) = "}" THEN ScanOk(PyDict(<<>>, <<>>), j + 1)
             ELSE IF Ch(s, j) # "\"" THEN ScanFail
             ELSE JSONObject(s, j + 1, PyDict(<<>>, <<>>))
    ELSE IF c = "["
        THEN LET j == SkipJsonWs(s, i + 1) IN
             IF Ch(s, j) = "]" THEN ScanOk(PyList(<<>>), j + 1)
             ELSE JSONArray(s, j, <<>>)
    ELSE IF c = "n" /\ Slice(s, i, i + 3) = "null" THEN ScanOk(PyNone, i + 4)
    ELSE IF c = "t" /\ Slice(s, i, i + 3) = "true" THEN ScanOk(PyBool(TRUE), i + 4)
    ELSE IF c = "f" /\ Slice(s, i, i + 4) = "false" THEN ScanOk(PyBool(FALSE), i + 5)
    ELSE IF NumberEnd(s, i) # i
        THEN ScanOk(PyNum(Slice(s, i, NumberEnd(s, i) - 1)), NumberEnd(s, i))
    ELSE IF c = "N" /\ Slice(s, i, i + 2) = "NaN" THEN ScanOk(PyNum("NaN"), i + 3)
    ELSE IF c = "I" /\ Slice(s, i, i + 7) = "Infinity"
        THEN ScanOk(PyNum("Infinity"), i + 8)
    ELSE IF c = "-" /\ Slice(s, i, i + 8) = "-Infinity"
        THEN ScanOk(PyNum("-Infinity"), i + 9)
    ELSE ScanFail

\* The whole of s must be one value.
whole_value(s, r) ==
    IF ~r.ok THEN PyRaise("JSONDecodeError")
    ELSE IF SkipJsonWs(s, r.i) # Len(s) + 1 THEN PyRaise("JSONDecodeError")
    ELSE r.v

\* json.loads(s): the value, or JSONDecodeError raised.
json_loads(s) ==
    The({ whole_value(s, r) : r \in {scan_once(s, SkipJsonWs(s, 1))} })

(***************************************************************************)
(* _fix_json_issues: three re.sub passes over the extracted span           *)
(***************************************************************************)
\* s from position i on without the characters at the positions of P.
RECURSIVE Without(_, _, _)
Without(s, P, i) ==
    The({ IF later = {} THEN Slice(s, i, Len(s))
          ELSE Slice(s, i, Min(later) - 1) \o Without(s, P, Min(later) + 1)
          : later \in {{k \in P : k >= i}} })

\* re.sub(r',(\s*})', r'\1', json_str): the pattern without the bracket.
StripCommasBeforeBrace(s) ==
    Without(s, {k \in 1..Len(s) : /\ Ch(s, k) = ","
                                  /\ Ch(s, SkipReWs(s, k + 1)) = "}"}, 1)

\* re.sub(r',(\s*[}\]])', r'\1', json_str): every comma that is followed,
\* after any whitespace, by a closing brace or bracket is dropped.
StripTrailingCommas(s) ==
    Without(s, {k \in 1..Len(s) : /\ Ch(s, k) = ","
                                  /\ Ch(s, SkipReWs(s, k + 1)) \in {"}", "]"}}, 1)

\* The position of the last double quote of s that only whitespace follows,
\* 0 when there is none: where r'"\s*$' matches.
RECURSIVE TrailingQuote(_, _)
TrailingQuote(s, i) ==
    IF i < 1 THEN 0
    ELSE IF Ch(s, i) = "\"" THEN i
    ELSE IF Ch(s, i) \in ReWhitespace THEN TrailingQuote(s, i - 1)
    ELSE 0

\* re.sub(r'"\s*$', '"}', json_str)
CloseTrailingString(s) ==
    LET q == TrailingQuote(s, Len(s)) IN
    IF q = 0 THEN s ELSE Slice(s, 1, q - 1) \o "\"}"

\* The end of a run of [a-zA-Z0-9\s] from position i on.
RECURSIVE SkipWord(_, _)
SkipWord(s, i) ==
    IF Ch(s, i) \in Letters \cup Digits \cup ReWhitespace
    THEN SkipWord(s, i + 1) ELSE i

\* Where the word after the colon at position k starts, and where the run
\* it opens ends.
WordStart(s, k) == SkipReWs(s, k + 1)

WordStop(s, k) == SkipWord(s, WordStart(s, k) + 1)

\* s from position i on with the word after each colon of P put in quotes.
RECURSIVE QuoteWords(_, _, _)
QuoteWords(s, P, i) ==
    The({ IF later = {} THEN Slice(s, i, Len(s))
          ELSE The({ Slice(s, i, k - 1) \o ": \""
                         \o Slice(s, WordStart(s, k), WordStop(s, k) - 1)
                         \o "\"" \o Ch(s, WordStop(s, k))
                         \o QuoteWords(s, P, WordStop(s, k) + 1)
                     : k \in {Min(later)} })
          : later \in {{k \in P : k >= i}} })

\* re.sub(r':\s*([a-zA-Z][a-zA-Z0-9\s]*)\s*([,}])', r': "\1"\2', json_str):
\* a colon, whitespace, a word that starts with a letter and runs up to a
\* comma or closing brace: the word is put in quotes.  No match holds a
\* colon after its first character, so every such colon opens a match.
QuoteBareWords(s) ==
    QuoteWords(s, {k \in 1..Len(s) : /\ Ch(s, k) = ":"
                                     /\ Ch(s, WordStart(s, k)) \in Letters
                                     /\ Ch(s, WordStop(s, k)) \in {",", "}"}}, 1)

fix_json_issues(json_str) ==
    The({ The({ QuoteBareWords(closed) : closed \in {CloseTrailingString(stripped)} })
          : stripped \in {StripTrailingCommas(json_str)} })

(***************************************************************************)
(* _extract_json_from_response                                             *)
(***************************************************************************)
\* The span response_text[json_start:json_end], "" when the guard of the
\* extraction fails.
json_span(response_text) ==
    LET json_start == Find(response_text, "{", 1)
        json_end == RFind(response_text, "}", Len(response_text))
    IN IF json_start >= 1 /\ json_end >= json_start
       THEN Slice(response_text, json_start, json_end)
       ELSE ""

\* What the except branch does with the span: ValueError when there is
\* none, else the repaired span parsed.
extract_from_span(span) ==
    IF span = "" THEN PyRaise("ValueError")
    ELSE The({ json_loads(json_str) : json_str \in {fix_json_issues(span)} })

\* The parsed value, or the exception the method lets through.
extract_json_from_response(response_text) ==
    The({ IF ~Raised(whole) THEN whole
          ELSE The({ extract_from_span(span) : span \in {json_span(response_text)} })
          : whole \in {json_loads(response_text)} })

(***************************************************************************)
(* The pydantic models (src/main.py:18-78)                                 *)
(***************************************************************************)
\* A field: its name, the kind of its annotation, and for a list of models
\* the model.
Fld(name, kind, of) == [name |-> name, kind |-> kind, of |-> of]

CourseDetail ==
    << Fld("course_name", "str", ""), Fld("platform", "str", ""),
       Fld("link", "str", ""), Fld("duration", "str", ""),
       Fld("difficulty_level", "str", ""),
       Fld("prerequisites", "List[str]", ""),
       Fld("key_topics", "List[str]", ""),
       Fld("certification", "bool", ""),
       Fld("price", "Optional[str]", "") >>

ProjectDetail ==
    << Fld("title", "str", ""), Fld("description", "str", ""),
       Fld("skills_practiced", "List[str]", ""),
       Fld("difficulty_level", "str", ""),
       Fld("estimated_duration", "str", ""),
       Fld("resources_needed", "List[str]", ""),
       Fld("learning_outcomes", "List[str]", ""),
       Fld("implementation_steps", "List[str]", "") >>

SkillDetail ==
    << Fld("skill_name", "str", ""), Fld("importance_level", "str", ""),
       Fld("time_to_master", "str", ""),
       Fld("prerequisites", "List[str]", ""),
       Fld("resources", "List[str]", ""),
       Fld("industry_applications", "List[str]", ""),
       Fld("proficiency_metrics", "List[str]", "") >>

CareerPath ==
    << Fld("title", "str", ""), Fld("description", "str", ""),
       Fld("salary_range", "str", ""), Fld("required_experience", "str", ""),
       Fld("key_responsibilities", "List[str]", ""),
       Fld("required_skills", "List[str]", ""),
       Fld("growth_opportunities", "List[str]", ""),
       Fld("industry_demand", "str", ""),
       Fld("typical_job_titles", "List[str]", "") >>

CareerGuidance ==
    << Fld("domain_overview", "str", ""),
       Fld("current_industry_trends", "List[str]", ""),
       Fld("skill_roadmap", "List[model]", "SkillDetail"),
       Fld("recommended_courses", "List[model]", "CourseDetail"),
       Fld("project_suggestions", "List[model]", "ProjectDetail"),
       Fld("career_growth_paths", "List[model]", "CareerPath"),
       Fld("certifications_needed", "List[str]", ""),
       Fld("networking_suggestions", "List[str]", ""),
       Fld("interview_preparation", "List[str]", ""),
       Fld("industry_resources", "List[str]", "") >>

JobListing ==
    << Fld("job_title", "str", ""), Fld("company", "str", ""),
       Fld("location", "str", ""), Fld("platform", "str", ""),
       Fld("link", "str", ""), Fld("posted_date", "str", ""),
       Fld("description", "str", "") >>

ModelFields(model) ==
    CASE model = "CourseDetail" -> CourseDetail
      [] model = "JobListing" -> JobListing
      [] model = "ProjectDetail" -> ProjectDetail
      [] model = "SkillDetail" -> SkillDetail
      [] model = "CareerPath" -> CareerPath
      [] model = "CareerGuidance" -> CareerGuidance

\* An instance of a model: its fields in declaration order.
PyModel(model, vals) ==
    [t |-> model, s |-> "",
     k |-> vals,
     n |-> [i \in 1..Len(ModelFields(model)) |-> ModelFields(model)[i].name]]

\* The defaults of a model whose list fields are declared with
\* Field(default=None).
FieldDefaultNull(f) ==
    CASE f.kind = "str" -> PyStr("")
      [] f.kind = "bool" -> PyBool(FALSE)
      [] f.kind \in {"Optional[str]", "List[str]", "List[model]"} -> PyNone

\* Field(default=...) and Field(default_factory=list)
FieldDefault(f) ==
    CASE f.kind = "str" -> PyStr("")
      [] f.kind = "bool" -> PyBool(FALSE)
      [] f.kind = "Optional[str]" -> PyNone
      [] f.kind \in {"List[str]", "List[model]"} -> PyList(<<>>)

\* The strings pydantic reads as a bool for a bool field.
BoolTrueStrings == {"true", "True", "1", "yes", "on", "t", "y"}

BoolFalseStrings == {"false", "False", "0", "no", "off", "f", "n"}

RECURSIVE validate_model(_, _)
RECURSIVE validate_field(_, _)

\* The validated items as a list, or ValidationError when one of them
\* raised.
list_of(vals) ==
    IF \E i \in 1..Len(vals) : Raised(vals[i])
    THEN PyRaise("ValidationError") ELSE PyList(vals)

\* The items of a list field, each validated against the item type.
validate_items(f, items) ==
    The({ list_of(vals)
          : vals \in { [i \in 1..Len(items) |->
                          IF f.kind = "List[str]"
                          THEN validate_field(Fld(f.name, "str", ""), items[i])
                          ELSE IF items[i].t = f.of THEN items[i]
                          ELSE validate_model(f.of, items[i])] } })

\* One field's value against its annotation: the value the model stores, or
\* ValidationError.  A number given for a str is refused (pydantic 2).
validate_field(f, v) ==
    CASE f.kind = "str" ->
            IF v.t = "str" THEN v ELSE PyRaise("ValidationError")
      [] f.kind = "bool" ->
            IF v.t \in {"True", "False"} THEN v
            ELSE IF v.t = "str" /\ v.s \in BoolTrueStrings THEN PyBool(TRUE)
            ELSE IF v.t = "str" /\ v.s \in BoolFalseStrings THEN PyBool(FALSE)
            ELSE IF v.t = "num" /\ v.s \in {"0", "1"} THEN PyBool(v.s = "1")
            ELSE PyRaise("ValidationError")
      [] f.kind = "Optional[str]" ->
            IF v.t \in {"None", "str"} THEN v ELSE PyRaise("ValidationError")
      [] f.kind \in {"List[str]", "List[model]"} ->
            IF v.t = "list" THEN validate_items(f, v.k)
            ELSE PyRaise("ValidationError")

\* The instance with the validated fields, or ValidationError when one of
\* them raised.
model_of(model, vals) ==
    IF \E i \in 1..Len(vals) : Raised(vals[i])
    THEN PyRaise("ValidationError") ELSE PyModel(model, vals)

\* The fields of a model read from the mapping data: a field data lacks
\* takes its default, a key the model does not declare is ignored.
validate_fields(model, data) ==
    The({ model_of(model, vals)
          : vals \in { [i \in 1..Len(ModelFields(model)) |->
                          IF HasKey(data, ModelFields(model)[i].name)
                          THEN validate_field(ModelFields(model)[i],
                                              Get(data, ModelFields(model)[i].name))
                          ELSE FieldDefault(ModelFields(model)[i])] } })

\* The validation of a model configured with extra = "forbid": a key the
\* model does not declare is refused.
validate_model_forbid_extra(model, data) ==
    IF data.t # "dict" THEN PyRaise("ValidationError")
    ELSE IF \E i \in 1..Len(data.n) :
               \A j \in 1..Len(ModelFields(model)) :
                   ModelFields(model)[j].name # data.n[i]
        THEN PyRaise("ValidationError")
    ELSE validate_fields(model, data)

validate_model(model, data) ==
    IF data.t # "dict" THEN PyRaise("ValidationError")
    ELSE validate_fields(model, data)

\* Model(**data): TypeError when data is no mapping.
construct(model, data) ==
    IF data.t # "dict" THEN PyRaise("TypeError")
    ELSE validate_model(model, data)

(***************************************************************************)
(* Python idioms the fallback synthesis uses                               *)
(***************************************************************************)
\* dict.get that never finds the key.
DictGetDefault(d, key, default) == default

\* d.get(key, default)
DictGet(d, key, default) == IF HasKey(d, key) THEN Get(d, key) ELSE default

\* l[:n]
Take(l, n) == PyList(SubSeq(l.k, 1, IF n < Len(l.k) THEN n ELSE Len(l.k)))

\* bool(l) of a list
Truthy(l) == Len(l.k) > 0

\* sep.join(l) from item i on
RECURSIVE JoinFrom(_, _, _)
JoinFrom(sep, l, i) ==
    IF i > Len(l.k) THEN ""
    ELSE IF i = Len(l.k) THEN l.k[i].s
    ELSE l.k[i].s \o sep \o JoinFrom(sep, l, i + 1)

Join(sep, l) == JoinFrom(sep, l, 1)

\* A list of str from a tuple of strings
Strs(seq) == PyList([i \in 1..Len(seq) |-> PyStr(seq[i])])

\* a + b on lists
Concat(a, b) == PyList(a.k \o b.k)

\* Keyword arguments <<name, value>>, ... as a mapping
Kw(pairs) ==
    The({ PyDict([i \in 1..Len(given) |-> given[i][1]],
                 [i \in 1..Len(given) |-> given[i][2]])
          : given \in {pairs} })

\* [expr(idx, item) for idx, item in enumerate(l)] where every expr is a
\* model instance: the list, or the first raise among its items.
FirstRaised(items) ==
    The({ IF \E i \in 1..Len(made) : Raised(made[i])
          THEN made[Min({i \in 1..Len(made) : Raised(made[i])})]
          ELSE PyList(made)
          : made \in {items} })

(***************************************************************************)
(* _generate_fallback_guidance of src/main.py                              *)
(***************************************************************************)
\* A SkillDetail of the roadmap whose prerequisites are the skill before
\* it in the enumeration, not the first core skill.
fallback_skill_chained(domain, level, core_skills, idx, skill) ==
    construct("SkillDetail", Kw(<<
        <<"skill_name", skill>>,
        <<"importance_level", PyStr(IF idx < 3 THEN "Essential" ELSE "Important")>>,
        <<"time_to_master",
          PyStr(IF level = "Beginner" THEN "3-6 months" ELSE "1-3 months")>>,
        <<"prerequisites",
          IF idx = 0 THEN PyList(<<>>)
          ELSE IF Truthy(core_skills) THEN PyList(<<core_skills.k[idx]>>)
          ELSE PyList(<<>>)>>,
        <<"resources", Strs(<<"Online tutorials and courses",
                              "Practice exercises and projects",
                              "Community forums and documentation">>)>>,
        <<"industry_applications",
          Strs(<<"Entry-level " \o domain \o " positions",
                 "Freelance " \o domain \o " projects",
                 "Personal " \o domain \o " development">>)>>,
        <<"proficiency_metrics", Strs(<<"Complete beginner projects",
                                        "Build portfolio applications",
                                        "Pass practical assessments">>)>> >>))

\* One SkillDetail of the roadmap; idx counts from 0 as enumerate does.
fallback_skill(domain, level, core_skills, idx, skill) ==
    construct("SkillDetail", Kw(<<
        <<"skill_name", skill>>,
        <<"importance_level", PyStr(IF idx < 3 THEN "Essential" ELSE "Important")>>,
        <<"time_to_master",
          PyStr(IF level = "Beginner" THEN "3-6 months" ELSE "1-3 months")>>,
        <<"prerequisites",
          IF idx = 0 THEN PyList(<<>>)
          ELSE IF Truthy(core_skills) THEN PyList(<<core_skills.k[1]>>)
          ELSE PyList(<<>>)>>,
        <<"resources", Strs(<<"Online tutorials and courses",
                              "Practice exercises and projects",
                              "Community forums and documentation">>)>>,
        <<"industry_applications",
          Strs(<<"Entry-level " \o domain \o " positions",
                 "Freelance " \o domain \o " projects",
                 "Personal " \o domain \o " development">>)>>,
        <<"proficiency_metrics", Strs(<<"Complete beginner projects",
                                        "Build portfolio applications",
                                        "Pass practical assessments">>)>> >>))

\* The roadmap's skills without the [:5] slice.
fallback_roadmap_uncapped(domain, core_skills) ==
    IF Truthy(core_skills) THEN core_skills
    ELSE Strs(<<domain \o " Fundamentals", "Problem Solving", "Technical Skills">>)

\* The skills the roadmap enumerates.
fallback_roadmap_skills(domain, core_skills) ==
    IF Truthy(core_skills) THEN Take(core_skills, 5)
    ELSE Strs(<<domain \o " Fundamentals", "Problem Solving", "Technical Skills">>)

fallback_skill_roadmap(domain, level, core_skills) ==
    LET skills == fallback_roadmap_skills(domain, core_skills).k IN
    FirstRaised([i \in 1..Len(skills) |->
        fallback_skill(domain, level, core_skills, i - 1, skills[i])])

fallback_courses(domain, level, core_skills, specializations, tools_tech) ==
    FirstRaised(<<
      construct("CourseDetail", Kw(<<
        <<"course_name", PyStr("Complete " \o domain \o " Course for " \o level \o "s")>>,
        <<"platform", PyStr("Coursera")>>,
        <<"link", PyStr("https://coursera.org")>>,
        <<"duration", PyStr("8-12 weeks")>>,
        <<"difficulty_level", PyStr(level)>>,
        <<"prerequisites", PyList(<<>>)>>,
        <<"key_topics", IF Truthy(core_skills) THEN Take(core_skills, 3)
                        ELSE Strs(<<domain \o " basics">>)>>,
        <<"certification", PyBool(TRUE)>>,
        <<"price", PyStr("$39-79/month")>> >>)),
      construct("CourseDetail", Kw(<<
        <<"course_name", PyStr(domain \o " Fundamentals")>>,
        <<"platform", PyStr("Udemy")>>,
        <<"link", PyStr("https://udemy.com")>>,
        <<"duration", PyStr("6-8 weeks")>>,
        <<"difficulty_level", PyStr(level)>>,
        <<"prerequisites", PyList(<<>>)>>,
        <<"key_topics", IF Truthy(specializations) THEN Take(specializations, 3)
                        ELSE Strs(<<domain \o " concepts">>)>>,
        <<"certification", PyBool(TRUE)>>,
        <<"price", PyStr("$50-100")>> >>)),
      construct("CourseDetail", Kw(<<
        <<"course_name", PyStr("Practical " \o domain \o " Projects")>>,
        <<"platform", PyStr("edX")>>,
        <<"link", PyStr("https://edx.org")>>,
        <<"duration", PyStr("4-6 weeks")>>,
        <<"difficulty_level", PyStr(level)>>,
        <<"prerequisites", IF Truthy(core_skills) THEN Take(core_skills, 1)
                           ELSE PyList(<<>>)>>,
        <<"key_topics", IF Truthy(tools_tech) THEN Take(tools_tech, 3)
                        ELSE Strs(<<"hands-on practice">>)>>,
        <<"certification", PyBool(TRUE)>>,
        <<"price", PyStr("Free (Verified Certificate: $99)")>> >>)) >>)

fallback_projects(domain, level, core_skills, tools_tech) ==
    FirstRaised(<<
      construct("ProjectDetail", Kw(<<
        <<"title", PyStr(domain \o " Portfolio Project")>>,
        <<"description",
          PyStr("Build a comprehensive " \o domain
                \o " project that demonstrates your understanding of "
                \o (IF Truthy(core_skills) THEN Join(", ", Take(core_skills, 3))
                    ELSE "core concepts")
                \o ". This project will serve as a cornerstone piece for your portfolio.")>>,
        <<"skills_practiced", IF Truthy(core_skills) THEN Take(core_skills, 4)
                              ELSE Strs(<<domain \o " fundamentals">>)>>,
        <<"difficulty_level", PyStr(level)>>,
        <<"estimated_duration", PyStr("4-6 weeks")>>,
        <<"resources_needed", Strs(<<"Computer with internet access",
                                     "Basic development environment",
                                     "Online learning resources">>)>>,
        <<"learning_outcomes", Strs(<<"Understand " \o domain \o " fundamentals",
                                      "Build practical problem-solving skills",
                                      "Create a portfolio-worthy project",
                                      "Gain hands-on experience">>)>>,
        <<"implementation_steps", Strs(<<"Define project scope and requirements",
                                         "Set up development environment",
                                         "Break down project into smaller tasks",
                                         "Implement core functionality",
                                         "Test and debug the solution",
                                         "Document and present the project">>)>> >>)),
      construct("ProjectDetail", Kw(<<
        <<"title", PyStr("Real-world " \o domain \o " Application")>>,
        <<"description",
          PyStr("Create a practical application that solves a real-world problem using "
                \o domain \o " principles and "
                \o (IF Truthy(tools_tech) THEN Join(", ", Take(tools_tech, 2))
                    ELSE "modern tools")
                \o ".")>>,
        <<"skills_practiced", IF Truthy(core_skills) THEN Take(core_skills, 3)
                              ELSE Strs(<<domain \o " application">>)>>,
        <<"difficulty_level", PyStr(level)>>,
        <<"estimated_duration", PyStr("3-4 weeks")>>,
        <<"resources_needed", Strs(<<"Development tools and software",
                                     "Sample datasets or materials",
                                     "Documentation and tutorials">>)>>,
        <<"learning_outcomes", Strs(<<"Apply theoretical knowledge to practical problems",
                                      "Learn industry best practices",
                                      "Build confidence in problem-solving">>)>>,
        <<"implementation_steps", Strs(<<"Identify a real-world problem to solve",
                                         "Research existing solutions",
                                         "Design your approach",
                                         "Implement and iterate",
                                         "Share and get feedback">>)>> >>)) >>)

fallback_career_paths(domain, level, core_skills, specializations) ==
    FirstRaised(<<
      construct("CareerPath", Kw(<<
        <<"title", PyStr("Junior " \o domain \o " Professional")>>,
        <<"description",
          PyStr("Entry-level position focusing on "
                \o (IF Truthy(specializations) THEN Join(", ", Take(specializations, 2))
                    ELSE "foundational skills")
                \o " with opportunities for growth and learning.")>>,
        <<"salary_range", PyStr(IF level = "Beginner" THEN "$45,000 - $65,000"
                                ELSE "$55,000 - $75,000")>>,
        <<"required_experience", PyStr("0-2 years")>>,
        <<"key_responsibilities",
          Strs(<<"Assist with " \o domain \o " projects and tasks",
                 "Learn and apply industry best practices",
                 "Collaborate with senior team members",
                 "Contribute to project documentation">>)>>,
        <<"required_skills", IF Truthy(core_skills) THEN Take(core_skills, 4)
                             ELSE Strs(<<domain \o " basics">>)>>,
        <<"growth_opportunities",
          Strs(<<"Senior " \o domain \o " Professional", domain \o " Specialist",
                 domain \o " Team Lead", "Project Manager">>)>>,
        <<"industry_demand", PyStr("High")>>,
        <<"typical_job_titles",
          Strs(<<"Junior " \o domain \o " Analyst", domain \o " Associate",
                 "Entry-level " \o domain \o " Developer", domain \o " Trainee">>)>> >>)),
      construct("CareerPath", Kw(<<
        <<"title", PyStr("Mid-level " \o domain \o " Professional")>>,
        <<"description",
          PyStr("Experienced role with responsibility for "
                \o (IF Truthy(specializations) THEN Join(", ", Take(specializations, 3))
                    ELSE "advanced projects")
                \o " and mentoring junior staff.")>>,
        <<"salary_range", PyStr("$65,000 - $90,000")>>,
        <<"required_experience", PyStr("2-5 years")>>,
        <<"key_responsibilities",
          Strs(<<"Lead " \o domain \o " projects independently",
                 "Mentor junior team members",
                 "Design and implement solutions",
                 "Communicate with stakeholders">>)>>,
        <<"required_skills", IF Truthy(core_skills) THEN core_skills
                             ELSE Strs(<<"Advanced " \o domain \o " skills">>)>>,
        <<"growth_opportunities",
          Strs(<<"Senior " \o domain \o " Professional", domain \o " Manager",
                 "Technical Lead", "Consultant">>)>>,
        <<"industry_demand", PyStr("High")>>,
        <<"typical_job_titles",
          Strs(<<domain \o " Analyst", domain \o " Developer",
                 domain \o " Specialist", domain \o " Consultant">>)>> >>)) >>)

generate_fallback_guidance(domain, level, domain_knowledge) ==
    LET core_skills == DictGet(domain_knowledge, "core_skills", PyList(<<>>))
        specializations == DictGet(domain_knowledge, "specializations", PyList(<<>>))
        tools_tech == DictGet(domain_knowledge, "tools_and_technologies", PyList(<<>>))
    IN construct("CareerGuidance", Kw(<<
        <<"domain_overview",
          PyStr("The " \o domain
                \o " field is a dynamic and growing area that combines "
                \o Join(", ", Take(core_skills, 3))
                \o " to solve real-world problems. As a " \o level
                \o " professional, you'll focus on building foundational skills and gaining practical experience through hands-on projects.")>>,
        <<"current_industry_trends",
          Strs(<<"Increased demand for " \o domain \o " professionals",
                 "Growing adoption of "
                    \o (IF Truthy(tools_tech) THEN tools_tech.k[1].s ELSE "modern tools"),
                 "Remote work opportunities expanding",
                 "Focus on practical, project-based learning",
                 "Industry emphasis on continuous skill development">>)>>,
        <<"skill_roadmap", fallback_skill_roadmap(domain, level, core_skills)>>,
        <<"recommended_courses",
          fallback_courses(domain, level, core_skills, specializations, tools_tech)>>,
        <<"project_suggestions",
          fallback_projects(domain, level, core_skills, tools_tech)>>,
        <<"career_growth_paths",
          fallback_career_paths(domain, level, core_skills, specializations)>>,
        <<"certifications_needed",
          Concat(Strs(<<"Professional " \o domain \o " Certification",
                        domain \o " Fundamentals Certificate",
                        "Industry-recognized " \o domain \o " Credential">>),
                 Take(DictGet(domain_knowledge, "certification_paths", PyList(<<>>)), 3))>>,
        <<"networking_suggestions",
          Strs(<<"Join local " \o domain \o " meetups and user groups",
                 "Attend " \o domain \o " conferences and workshops",
                 "Connect with " \o domain \o " professionals on LinkedIn",
                 "Participate in online " \o domain \o " communities",
                 "Follow industry leaders and companies on social media",
                 "Join professional " \o domain \o " associations">>)>>,
        <<"interview_preparation",
          Strs(<<"Study " \o domain \o " fundamentals and core concepts",
                 "Practice explaining your projects clearly",
                 "Prepare examples of problem-solving experiences",
                 "Review common technical questions",
                 "Practice coding/practical exercises",
                 "Prepare questions about company culture and growth">>)>>,
        <<"industry_resources",
          Strs(<<"Leading " \o domain \o " companies: "
                    \o Join(", ", Take(DictGet(domain_knowledge, "key_companies",
                                               Strs(<<"Google", "Microsoft", "Amazon">>)), 5)),
                 "Key technologies: "
                    \o Join(", ", IF Truthy(tools_tech) THEN Take(tools_tech, 5)
                                  ELSE Strs(<<"Modern tools and frameworks">>)),
                 "Professional communities: " \o domain \o " forums and Discord servers",
                 "Learning platforms: Coursera, Udemy, Pluralsight, LinkedIn Learning",
                 "Industry publications and blogs about " \o domain,
                 "Open source projects and GitHub repositories">>)>> >>))

(***************************************************************************)
(* _generate_fallback_guidance of src/original.py                          *)
(***************************************************************************)
original_fallback_skill(level, idx, skill) ==
    construct("SkillDetail", Kw(<<
        <<"skill_name", skill>>,
        <<"importance_level", PyStr(IF idx < 3 THEN "Essential" ELSE "Important")>>,
        <<"time_to_master",
          PyStr(IF level = "Beginner" THEN "3-6 months" ELSE "1-2 months")>>,
        <<"prerequisites", PyList(<<>>)>>,
        <<"resources", PyList(<<>>)>>,
        <<"industry_applications", PyList(<<>>)>>,
        <<"proficiency_metrics", PyList(<<>>)>> >>))

original_fallback_skill_roadmap(level, domain_knowledge) ==
    LET skills == DictGet(domain_knowledge, "core_skills", PyList(<<>>)).k IN
    FirstRaised([i \in 1..Len(skills) |->
        original_fallback_skill(level, i - 1, skills[i])])

original_fallback_courses(level, domain_knowledge) ==
    LET skills == Take(DictGet(domain_knowledge, "core_skills", PyList(<<>>)), 3).k IN
    FirstRaised([i \in 1..Len(skills) |->
        construct("CourseDetail", Kw(<<
            <<"course_name", PyStr(skills[i].s \o " for " \o level \o "s")>>,
            <<"platform", PyStr("Coursera/Udemy")>>,
            <<"duration", PyStr("8-12 weeks")>>,
            <<"difficulty_level", PyStr(level)>>,
            <<"prerequisites", PyList(<<>>)>>,
            <<"key_topics", PyList(<<>>)>>,
            <<"certification", PyBool(TRUE)>>,
            <<"price", PyStr("Variable")>> >>))])

original_fallback_projects(domain, level, domain_knowledge) ==
    FirstRaised(<<
      construct("ProjectDetail", Kw(<<
        <<"title", PyStr(domain \o " " \o level \o " Project")>>,
        <<"description",
          PyStr("Build a practical " \o domain \o " project using "
                \o Join(", ", Take(DictGet(domain_knowledge, "tools_and_technologies",
                                           PyList(<<>>)), 3)))>>,
        <<"skills_practiced",
          Take(DictGet(domain_knowledge, "core_skills", PyList(<<>>)), 3)>>,
        <<"difficulty_level", PyStr(level)>>,
        <<"estimated_duration", PyStr("4-6 weeks")>>,
        <<"resources_needed", PyList(<<>>)>>,
        <<"learning_outcomes", PyList(<<>>)>>,
        <<"implementation_steps", PyList(<<>>)>> >>)) >>)

\* The career paths of src/main.py in place of those of src/original.py: two
\* fixed paths whatever levels the profile declares.
original_fixed_career_paths(domain, level, domain_knowledge) ==
    fallback_career_paths(domain, level,
                          DictGet(domain_knowledge, "core_skills", PyList(<<>>)),
                          DictGet(domain_knowledge, "specializations", PyList(<<>>)))

original_fallback_career_paths(domain, level, domain_knowledge) ==
    LET levels == DictGet(domain_knowledge, "career_levels",
                          Strs(<<level \o " " \o domain \o " Professional">>)).k IN
    FirstRaised([i \in 1..Len(levels) |->
        construct("CareerPath", Kw(<<
            <<"title", levels[i]>>,
            <<"description",
              PyStr("Professional " \o domain \o " role focusing on "
                    \o Join(", ", Take(DictGet(domain_knowledge, "specializations",
                                               PyList(<<>>)), 2)))>>,
            <<"required_skills",
              Take(DictGet(domain_knowledge, "core_skills", PyList(<<>>)), 4)>>,
            <<"industry_demand", PyStr("High")>>,
            <<"salary_range", PyStr("Competitive")>>,
            <<"required_experience",
              PyStr(level \o " level experience in " \o domain)>>,
            <<"key_responsibilities", PyList(<<>>)>>,
            <<"growth_opportunities", PyList(<<>>)>>,
            <<"typical_job_titles", PyList(<<>>)>> >>))])

original_generate_fallback_guidance(domain, level, domain_knowledge) ==
    LET core3 == Take(DictGet(domain_knowledge, "core_skills", PyList(<<>>)), 3).k IN
    construct("CareerGuidance", Kw(<<
        <<"domain_overview",
          DictGet(domain_knowledge, "description", PyStr("Overview of " \o domain))>>,
        <<"current_industry_trends",
          DictGet(domain_knowledge, "industry_standards", PyList(<<>>))>>,
        <<"skill_roadmap", original_fallback_skill_roadmap(level, domain_knowledge)>>,
        <<"recommended_courses", original_fallback_courses(level, domain_knowledge)>>,
        <<"project_suggestions",
          original_fallback_projects(domain, level, domain_knowledge)>>,
        <<"career_growth_paths",
          original_fallback_career_paths(domain, level, domain_knowledge)>>,
        <<"certifications_needed",
          DictGet(domain_knowledge, "certification_paths", PyList(<<>>))>>,
        <<"networking_suggestions",
          Strs(<<"Join " \o domain \o " professional groups",
                 "Attend " \o domain \o " conferences and meetups",
                 "Connect with professionals at "
                    \o Join(", ", Take(DictGet(domain_knowledge, "key_companies",
                                               PyList(<<>>)), 3))>>)>>,
        <<"interview_preparation",
          PyList([i \in 1..Len(core3) |->
                    PyStr("Study " \o core3[i].s \o " fundamentals")])>>,
        <<"industry_resources",
          Strs(<<"Leading companies: "
                    \o Join(", ", DictGet(domain_knowledge, "key_companies", PyList(<<>>))),
                 "Key technologies: "
                    \o Join(", ", DictGet(domain_knowledge, "tools_and_technologies",
                                          PyList(<<>>)))>>)>> >>))

(***************************************************************************)
(* The replies of the LLM backend the model draws from                     *)
(***************************************************************************)
\* The ten fields of the schema as members of a JSON object: the text of
\* each member, and below the value that text stands for.
FieldText1 ==
    "\"domain_overview\": \"Data work\""

FieldText2 ==
    "\"current_industry_trends\": [\"AI\", \"Cloud\"]"

FieldText3 ==
    "\"skill_roadmap\": [{\"skill_name\": \"SQL\", \"importance_level\": \"Essential"
    \o "\", \"time_to_master\": \"1 month\", \"prerequisites\": [], \"resources\": [\"Do"
    \o "cs\"], \"industry_applications\": [\"BI\"], \"proficiency_metrics\": [\"Quiz\"]"
    \o "}]"

FieldText4 ==
    "\"recommended_courses\": [{\"course_name\": \"ML\", \"platform\": \"edX\", \"link"
    \o "\": \"\", \"duration\": \"8 weeks\", \"difficulty_level\": \"Beginner\", \"prerequ"
    \o "isites\": [\"SQL\"], \"key_topics\": [\"Stats\"], \"certification\": true, \"pri"
    \o "ce\": null}]"

FieldText5 ==
    "\"project_suggestions\": [{\"title\": \"Dashboard\", \"description\": \"Build i"
    \o "t\", \"skills_practiced\": [\"SQL\"], \"difficulty_level\": \"Beginner\", \"esti"
    \o "mated_duration\": \"4 weeks\", \"resources_needed\": [], \"learning_outcomes"
    \o "\": [\"Charts\"], \"implementation_steps\": [\"Plan\", \"Ship\"]}]"

FieldText6 ==
    "\"career_growth_paths\": [{\"title\": \"Analyst\", \"description\": \"Entry rol"
    \o "e\", \"salary_range\": \"40-60k\", \"required_experience\": \"0-2 years\", \"key"
    \o "_responsibilities\": [\"Reports\"], \"required_skills\": [\"SQL\"], \"growth_o"
    \o "pportunities\": [], \"industry_demand\": \"High\", \"typical_job_titles\": [\""
    \o "Data Analyst\"]}]"

FieldText7 ==
    "\"certifications_needed\": [\"CDP\"]"

FieldText8 ==
    "\"networking_suggestions\": [\"Meetups\"]"

FieldText9 ==
    "\"interview_preparation\": [\"Practice\"]"

FieldText10 ==
    "\"industry_resources\": [\"Blogs\", \"Forums\"]"

FieldText(i) ==
    CASE i = 1 -> FieldText1
      [] i = 2 -> FieldText2
      [] i = 3 -> FieldText3
      [] i = 4 -> FieldText4
      [] i = 5 -> FieldText5
      [] i = 6 -> FieldText6
      [] i = 7 -> FieldText7
      [] i = 8 -> FieldText8
      [] i = 9 -> FieldText9
      [] i = 10 -> FieldText10

FieldValue1 ==
    PyStr("Data work")

FieldValue2 ==
    PyList(<<PyStr("AI"), PyStr("Cloud")>>)

FieldValue3 ==
    PyList(<<PyModel("SkillDetail", <<
        PyStr("SQL"),
        PyStr("Essential"),
        PyStr("1 month"),
        PyList(<<>>),
        PyList(<<PyStr("Docs")>>),
        PyList(<<PyStr("BI")>>),
        PyList(<<PyStr("Quiz")>>) >>)>>)

FieldValue4 ==
    PyList(<<PyModel("CourseDetail", <<
        PyStr("ML"),
        PyStr("edX"),
        PyStr(""),
        PyStr("8 weeks"),
        PyStr("Beginner"),
        PyList(<<PyStr("SQL")>>),
        PyList(<<PyStr("Stats")>>),
        PyBool(TRUE),
        PyNone >>)>>)

FieldValue5 ==
    PyList(<<PyModel("ProjectDetail", <<
        PyStr("Dashboard"),
        PyStr("Build it"),
        PyList(<<PyStr("SQL")>>),
        PyStr("Beginner"),
        PyStr("4 weeks"),
        PyList(<<>>),
        PyList(<<PyStr("Charts")>>),
        PyList(<<PyStr("Plan"), PyStr("Ship")>>) >>)>>)

FieldValue6 ==
    PyList(<<PyModel("CareerPath", <<
        PyStr("Analyst"),
        PyStr("Entry role"),
        PyStr("40-60k"),
        PyStr("0-2 years"),
        PyList(<<PyStr("Reports")>>),
        PyList(<<PyStr("SQL")>>),
        PyList(<<>>),
        PyStr("High"),
        PyList(<<PyStr("Data Analyst")>>) >>)>>)

FieldValue7 ==
    PyList(<<PyStr("CDP")>>)

FieldValue8 ==
    PyList(<<PyStr("Meetups")>>)

FieldValue9 ==
    PyList(<<PyStr("Practice")>>)

FieldValue10 ==
    PyList(<<PyStr("Blogs"), PyStr("Forums")>>)

FieldValue(i) ==
    CASE i = 1 -> FieldValue1
      [] i = 2 -> FieldValue2
      [] i = 3 -> FieldValue3
      [] i = 4 -> FieldValue4
      [] i = 5 -> FieldValue5
      [] i = 6 -> FieldValue6
      [] i = 7 -> FieldValue7
      [] i = 8 -> FieldValue8
      [] i = 9 -> FieldValue9
      [] i = 10 -> FieldValue10

\* The members of S, a set of field numbers, in schema order from field i
\* on, separated by commas.
RECURSIVE MembersFrom(_, _)
MembersFrom(S, i) ==
    IF i > 10 THEN ""
    ELSE IF i \notin S THEN MembersFrom(S, i + 1)
    ELSE IF \E j \in S : j > i THEN FieldText(i) \o ", " \o MembersFrom(S, i + 1)
    ELSE FieldText(i)

\* A reply that is a JSON object carrying exactly the fields of S.
ObjectText(S) == "{" \o MembersFrom(S, 1) \o "}"

\* The sets of fields the model's well-formed replies carry: none, each
\* field alone, the overview with the plain lists, and all of them.
PresentSets ==
    {{}} \cup {{i} : i \in 1..10} \cup {{1, 2, 7, 8, 9, 10}, 1..10}

\* A reply with fields the schema does not know, at the top and in a record,
\* and a record that lacks fields.
ExtraFieldsReply ==
    "{\"domain_overview\": \"Data work\", \"confidence\": 0.9, \"notes\": [\"x\"], "
    \o "\"skill_roadmap\": [{\"skill_name\": \"SQL\", \"rank\": 1}]}"

\* An object with a comma (in the form c1, c2) before its closing bracket
\* and brace.
TrailingCommaBody(c1, c2) ==
    "{\"current_industry_trends\": [\"AI\", \"Cloud\"" \o c1
    \o "], \"certifications_needed\": [\"CDP\"]" \o c2 \o "}"

\* Where the commas stand and how: before the bracket, before the brace,
\* and before both with whitespace around them.
CommaPlacements == {<<",", "">>, <<"", ",">>, <<" ,\n ", " ,\n ">>}

\* What the model may write after the object.
Commentary == {"", " Hope this helps!"}

TrailingCommaReplies ==
    {TrailingCommaBody(c[1], c[2]) \o tail : c \in CommaPlacements, tail \in Commentary}

\* The example of the specification, alone and followed by commentary.
ExampleReply == "{\"a\": [1,2,]}"

ExampleReplies == {ExampleReply \o tail : tail \in Commentary}

\* Replies cut off by the output limit: inside a string literal, inside a
\* string literal after a complete record, and after a complete literal.
TruncatedInString == "{\"domain_overview\": \"Data wo"

TruncatedAfterRecord ==
    "{\"skill_roadmap\": [{\"skill_name\": \"SQL\"}], \"domain_overview\": \"Data wo"

TruncatedAfterString == "{\"domain_overview\": \"Data work\""

TruncatedReplies == {TruncatedInString, TruncatedAfterRecord, TruncatedAfterString}

\* JSON that is no object.
NonObjectReplies == {"[1, 2]", "\"just text\""}

\* Objects a field of which does not fit its annotation.
InvalidReplies ==
    {"{\"skill_roadmap\": null}",
     "{\"current_industry_trends\": \"AI\"}",
     "{\"skill_roadmap\": [{\"prerequisites\": null}]}"}

\* A course that carries its name only.
SparseCourseReply == "{\"recommended_courses\": [{\"course_name\": \"ML\"}]}"

\* No JSON at all, and an object with text before and after it.
ProseReply == "I cannot help with that."

WrappedReply == "Here is your plan:\n{\"domain_overview\": \"Data work\"}\nGood luck"

\* Valid objects with a comma before a bracket, and with a colon before a
\* word and a comma, inside a string value.
CommaInStringReply == "{\"domain_overview\": \"Lists end with ,]\"}"

ColonInStringReply == "{\"domain_overview\": \"Note: ask, then act\"}"

\* Valid objects the model follows with commentary that holds no brace: the
\* overview alone, a course with a bare true and a bare null, the plain
\* lists, and the two objects above.
CommentedObjects ==
    {ObjectText({1}), ObjectText({4}), ObjectText({1, 2, 7, 8, 9, 10}),
     CommaInStringReply, ColonInStringReply}

CommentedReplies == {object \o " Hope this helps!" : object \in CommentedObjects}

ReplyTexts ==
    {""} \cup {ObjectText(S) : S \in PresentSets} \cup {ExtraFieldsReply}
    \cup TrailingCommaReplies \cup ExampleReplies \cup TruncatedReplies
    \cup NonObjectReplies \cup InvalidReplies
    \cup {SparseCourseReply, ProseReply, WrappedReply}
    \cup CommentedReplies

\* What a call of generate_content gives: a response with a text, or an
\* exception.
LLMOutcomes == {PyStr(text) : text \in ReplyTexts} \cup {PyRaise("429 Quota exceeded")}

(***************************************************************************)
(* The domain profiles the requests are made with                          *)
(***************************************************************************)
\* The largest number of core skills of a profile.
MaxSkills == 6

SkillPool ==
    << "Python", "Statistics", "SQL", "Machine Learning", "Data Visualization",
       "Communication", "Cloud Platforms", "Ethics" >>

DomainPool ==
    << "Empty Domain", "Data Entry", "Data Science", "Web Design",
       "Software Development", "Cyber Security", "Cloud Computing",
       "Machine Learning" >>

\* A profile as _parse_domain_content returns it, with n core skills; a
\* rich profile fills the other sections too.
Profile(name, n, rich) ==
    PyDict(
      << "name", "description", "core_skills", "specializations",
         "tools_and_technologies", "industry_standards", "career_levels",
         "certification_paths", "key_companies" >>,
      << PyStr(name),
         PyStr(IF rich THEN "All about " \o name ELSE ""),
         Take(Strs(SkillPool), n),
         IF rich THEN Strs(<<"Analytics", "Research", "Engineering", "Consulting">>)
                 ELSE PyList(<<>>),
         IF rich THEN Strs(<<"Jupyter", "Git", "Docker">>) ELSE PyList(<<>>),
         IF rich THEN Strs(<<"ISO 27001", "GDPR">>) ELSE PyList(<<>>),
         IF rich THEN Strs(<<"Junior", "Senior", "Lead">>) ELSE PyList(<<>>),
         IF rich THEN Strs(<<"AWS", "Azure", "GCP", "PMP">>) ELSE PyList(<<>>),
         IF rich THEN Strs(<<"Acme", "Globex">>) ELSE PyList(<<>>) >>)

\* The knowledge base: one domain for every number of core skills up to
\* MaxSkills, every second one rich.
KnowledgeBase ==
    PyDict([i \in 1..(MaxSkills + 1) |-> DomainPool[i]],
           [i \in 1..(MaxSkills + 1) |-> Profile(DomainPool[i], i - 1, i % 2 = 1)])

\* levels of _get_user_selections
Levels == {"Beginner", "Intermediate", "Advanced"}

Queries == {"How do I start?", "Which certification first?"}

(***************************************************************************)
(* Strings: the str methods the loader and the job fetcher use             *)
(***************************************************************************)
\* The characters str.strip() removes, on the characters of the model.
PyWhitespace == {" ", "\t", "\n", "\r", "\f"}

\* s.strip()
Strip(s) ==
    The({ IF kept = {} THEN "" ELSE SubSeq(s, Min(kept), Max(kept))
          : kept \in {{k \in 1..Len(s) : Ch(s, k) \notin PyWhitespace}} })

\* s.endswith(suffix) and s.startswith(prefix)
EndsWith(s, suffix) ==
    Len(suffix) <= Len(s) /\ SubSeq(s, Len(s) - Len(suffix) + 1, Len(s)) = suffix

StartsWith(s, prefix) ==
    Len(prefix) <= Len(s) /\ SubSeq(s, 1, Len(prefix)) = prefix

\* s.replace(old, new) from position i on: the occurrences of old, left to
\* right and not overlapping, give way to new.
RECURSIVE ReplaceFrom(_, _, _, _)
ReplaceFrom(s, old, new, i) ==
    The({ IF at = {} THEN Slice(s, i, Len(s))
          ELSE Slice(s, i, Min(at) - 1) \o new
                 \o ReplaceFrom(s, old, new, Min(at) + Len(old))
          : at \in {{k \in i..(Len(s) - Len(old) + 1) :
                        SubSeq(s, k, k + Len(old) - 1) = old}} })

Replace(s, old, new) == ReplaceFrom(s, old, new, 1)

UpperCase == "ABCDEFGHIJKLMNOPQRSTUVWXYZ"

LowerCase == "abcdefghijklmnopqrstuvwxyz"

\* s.lower() on ASCII
RECURSIVE LowerFrom(_, _)
LowerFrom(s, i) ==
    IF i > Len(s) THEN ""
    ELSE (IF Find(UpperCase, Ch(s, i), 1) # 0
          THEN Ch(LowerCase, Find(UpperCase, Ch(s, i), 1))
          ELSE Ch(s, i)) \o LowerFrom(s, i + 1)

Lower(s) == LowerFrom(s, 1)

\* The r-th least of a set of positions.
Nth(P, r) == CHOOSE k \in P : Cardinality({j \in P : j <= k}) = r

\* s.split(sep) for a separator of one character: the pieces between the
\* occurrences of sep, one more than there are occurrences.
Split(s, sep) ==
    The({ [j \in 1..(Cardinality(at) + 1) |->
              Slice(s, IF j = 1 THEN 1 ELSE Nth(at, j - 1) + 1,
                       IF j > Cardinality(at) THEN Len(s) ELSE Nth(at, j) - 1)]
          : at \in {{k \in 1..Len(s) : Ch(s, k) = sep}} })

(***************************************************************************)
(* DomainKnowledgeBase: the domain files and their parsing                 *)
(***************************************************************************)
\* The keys of sections in _parse_domain_content.
SectionNames ==
    << "name", "description", "core_skills", "specializations",
       "tools_and_technologies", "industry_standards", "career_levels",
       "certification_paths", "key_companies" >>

\* sections as _parse_domain_content starts with.
EmptySections ==
    PyDict(SectionNames,
           [i \in 1..Len(SectionNames) |-> IF i <= 2 THEN PyStr("") ELSE PyList(<<>>)])

\* bool(current_section): None and "" are falsy.
SectionOpen(current_section) ==
    current_section.t = "str" /\ current_section.s # ""

\* The locals the loop of _parse_domain_content carries from line to line;
\* sections is a raise when a line has raised.
ParseState(sections, current_section) ==
    [sections |-> sections, current_section |-> current_section]

\* sections[current_section].append(item): str has no append.
append_item(sections, key, item) ==
    IF Get(sections, key).t # "list" THEN PyRaise("AttributeError")
    ELSE DictSet(sections, key, PyList(Append(Get(sections, key).k, PyStr(item))))

\* A header that opens no section of its own: current_section stays what
\* it was.
open_known_section(st, line) ==
    IF HasKey(st.sections, Replace(Lower(Slice(line, 1, Len(line) - 1)), " ", "_"))
    THEN ParseState(st.sections,
                    PyStr(Replace(Lower(Slice(line, 1, Len(line) - 1)), " ", "_")))
    ELSE st

\* current_section = line[:-1].lower().replace(' ', '_')
open_section(st, line) ==
    ParseState(st.sections,
               PyStr(Replace(Lower(Slice(line, 1, Len(line) - 1)), " ", "_")))

\* if current_section in sections: sections[current_section].append(...)
add_item(st, line) ==
    IF HasKey(st.sections, st.current_section.s)
    THEN ParseState(append_item(st.sections, st.current_section.s,
                                Strip(Slice(line, 2, Len(line)))),
                    st.current_section)
    ELSE st

\* The name and the description: the line under their header, without the
\* prefix.
set_field(st, line) ==
    IF st.current_section.s = "name"
    THEN ParseState(DictSet(st.sections, "name",
                            PyStr(Strip(Replace(line, "Name:", "")))),
                    st.current_section)
    ELSE IF st.current_section.s = "description"
    THEN ParseState(DictSet(st.sections, "description",
                            PyStr(Strip(Replace(line, "Description:", "")))),
                    st.current_section)
    ELSE st

\* The body of the loop for one stripped line.
parse_stripped(st, line) ==
    CASE EndsWith(line, ":") -> open_section(st, line)
      [] ~EndsWith(line, ":") /\ StartsWith(line, "-") /\ SectionOpen(st.current_section)
           -> add_item(st, line)
      [] OTHER
           -> IF line # "" /\ SectionOpen(st.current_section)
              THEN set_field(st, line)
              ELSE st

\* for line in lines[a..b]: the halves of the range one after the other.
RECURSIVE parse_lines(_, _, _, _)
parse_lines(lines, a, b, st) ==
    IF a > b \/ Raised(st.sections) THEN st
    ELSE IF a = b THEN parse_stripped(st, Strip(lines[a]))
    ELSE The({ parse_lines(lines, (a + b) \div 2 + 1, b, half)
               : half \in {parse_lines(lines, a, (a + b) \div 2, st)} })

\* _parse_domain_content(content): the profile, or the raise of a line.
parse_domain_content(content) ==
    The({ parse_lines(lines, 1, Len(lines), ParseState(EmptySections, PyNone)).sections
          : lines \in {Split(content, "\n")} })

\* _get_default_domain()
get_default_domain ==
    PyDict(SectionNames,
           << PyStr("General Technology"),
              PyStr("General technology and computing skills"),
              Strs(<<"Programming", "System Design", "Problem Solving">>),
              Strs(<<"Software Development", "Data Science", "Cloud Computing">>),
              Strs(<<"Programming Languages", "Databases", "Cloud Platforms">>),
              Strs(<<"Best Practices", "Security", "Performance">>),
              Strs(<<"Entry Level", "Mid Level", "Senior Level">>),
              Strs(<<"General Certifications">>),
              Strs(<<"Tech Companies">>) >>)

\* sample_content of _create_sample_domain
sample_content ==
    "Name: Software Development\n"
    \o "Description: Modern software development encompassing various programming languages, frameworks, and methodologies.\n"
    \o "\n"
    \o "Core Skills:\n"
    \o "- Programming fundamentals\n"
    \o "- Object-oriented design\n"
    \o "- Version control (Git)\n"
    \o "- Testing and debugging\n"
    \o "- API development\n"
    \o "\n"
    \o "Specializations:\n"
    \o "- Full-stack development\n"
    \o "- Mobile development\n"
    \o "- Cloud computing\n"
    \o "- DevOps\n"
    \o "- Security\n"
    \o "\n"
    \o "Tools and Technologies:\n"
    \o "- Python/JavaScript/Java\n"
    \o "- Docker & Kubernetes\n"
    \o "- AWS/Azure/GCP\n"
    \o "- CI/CD tools\n"
    \o "- Database systems\n"
    \o "\n"
    \o "Industry Standards:\n"
    \o "- Agile methodology\n"
    \o "- Clean code principles\n"
    \o "- Microservices architecture\n"
    \o "- DevSecOps\n"
    \o "- Cloud-native development\n"
    \o "\n"
    \o "Career Levels:\n"
    \o "- Junior Developer\n"
    \o "- Mid-level Developer\n"
    \o "- Senior Developer\n"
    \o "- Tech Lead\n"
    \o "- Software Architect\n"
    \o "\n"
    \o "Certification Paths:\n"
    \o "- AWS Certified Developer\n"
    \o "- Microsoft Azure Developer\n"
    \o "- Google Cloud Developer\n"
    \o "- Certified Kubernetes Administrator\n"
    \o "- CompTIA Security+\n"
    \o "\n"
    \o "Key Companies:\n"
    \o "- Google\n"
    \o "- Microsoft\n"
    \o "- Amazon\n"
    \o "- Meta\n"
    \o "- Apple"

\* A file of the directory: its name, and what reading it gives, the text
\* or the raise of open().
File(name, content) == [name |-> name, content |-> content]

\* The file _create_sample_domain writes.
sample_file == File("Domain Machine Learning.txt", PyStr(sample_content))

\* The directory: whether it exists, and its files in the order os.listdir
\* gives them.
Directory(exists, files) == [exists |-> exists, files |-> files]

\* The items of a section as lines of a file.
RECURSIVE ItemLines(_, _)
ItemLines(items, i) ==
    IF i > Len(items) THEN ""
    ELSE "- " \o items[i].s \o "\n" \o ItemLines(items, i + 1)

\* A file that holds a profile: every section under its header, the name
\* and the description on the line after theirs.
ProfileText(profile) ==
    "Name:\n" \o Get(profile, "name").s \o "\n"
    \o "Description:\n" \o Get(profile, "description").s \o "\n\n"
    \o "Core Skills:\n" \o ItemLines(Get(profile, "core_skills").k, 1) \o "\n"
    \o "Specializations:\n" \o ItemLines(Get(profile, "specializations").k, 1) \o "\n"
    \o "Tools and Technologies:\n"
    \o ItemLines(Get(profile, "tools_and_technologies").k, 1) \o "\n"
    \o "Industry Standards:\n" \o ItemLines(Get(profile, "industry_standards").k, 1) \o "\n"
    \o "Career Levels:\n" \o ItemLines(Get(profile, "career_levels").k, 1) \o "\n"
    \o "Certification Paths:\n"
    \o ItemLines(Get(profile, "certification_paths").k, 1) \o "\n"
    \o "Key Companies:\n" \o ItemLines(Get(profile, "key_companies").k, 1)

\* The files of the knowledge base: one per domain, named after it.
KnowledgeBaseFiles ==
    Directory(TRUE,
              [i \in 1..Len(KnowledgeBase.n) |->
                  File(KnowledgeBase.n[i] \o ".txt",
                       PyStr(ProfileText(KnowledgeBase.k[i])))])

\* The most lines a generated file has, and the most files a directory of
\* the loader's runs has.
MaxLines == 3

MaxFiles == 2

\* The lines generated files are made of: headers of known sections, the
\* header of an unknown one, a prefixed field, items and free text.
LinePool ==
    {"Name:", "Description: Y", "Core Skills:", "Hobbies:", "- Python", "notes"}

\* The sequences of at most n lines of the pool.
RECURSIVE LineSeqs(_)
LineSeqs(n) ==
    IF n = 0 THEN {<<>>}
    ELSE LineSeqs(n - 1)
           \cup {Append(l, x) : l \in {m \in LineSeqs(n - 1) : Len(m) = n - 1},
                                x \in LinePool}

\* "\n".join(lines)
RECURSIVE JoinLines(_, _)
JoinLines(lines, i) ==
    IF i > Len(lines) THEN ""
    ELSE IF i = Len(lines) THEN lines[i]
    ELSE lines[i] \o "\n" \o JoinLines(lines, i + 1)

GeneratedFiles ==
    {File("Generated.txt", PyStr(JoinLines(l, 1))) : l \in LineSeqs(MaxLines)}

\* Files written by hand: the fields on the line of their prefix, the
\* fields under their header, an unknown section between two known ones,
\* items under the Name header, no section at all, a file that is no .txt,
\* and a file open() refuses.
PrefixedFile ==
    File("Prefixed.txt",
         PyStr("Name: X\nDescription: Y\nCore Skills:\n- Python \n-  SQL"))

HeaderFile ==
    File("Header.txt",
         PyStr("Name:\nX\nDescription:\nY\n\nCore Skills:\n- Python\n- SQL\n"))

UnknownSectionFile ==
    File("Unknown.txt",
         PyStr("Core Skills:\n- Python\nHobbies:\n- Chess\n- Golf\n"
               \o "Career Levels:\n- Junior"))

NameItemsFile ==
    File("NameItems.txt", PyStr("Name:\n- Alice\nCore Skills:\n- Python"))

FreeTextFile == File("Notes.txt", PyStr("just some notes\n- stray item\n\n"))

ReadmeFile == File("README.md", PyStr("Core Skills:\n- Python"))

LockedFile == File("Locked.txt", PyRaise("PermissionError"))

WrittenFiles ==
    {PrefixedFile, HeaderFile, UnknownSectionFile, NameItemsFile, FreeTextFile,
     ReadmeFile, LockedFile}

\* The orders in which at most n written files of different names stand.
RECURSIVE FileSeqs(_)
FileSeqs(n) ==
    IF n = 0 THEN {<<>>}
    ELSE FileSeqs(n - 1)
           \cup {Append(l, f) : l \in {m \in FileSeqs(n - 1) : Len(m) = n - 1},
                                f \in WrittenFiles}

\* The directories the loader is run on: none, an empty one, the written
\* files in every order, each generated file alone, and the files of the
\* knowledge base.
Directories ==
    {Directory(FALSE, <<>>), KnowledgeBaseFiles}
        \cup {Directory(TRUE, l) :
                 l \in {m \in FileSeqs(MaxFiles) :
                           \A i, j \in 1..Len(m) : i # j => m[i] # m[j]}}
        \cup {Directory(TRUE, <<f>>) : f \in GeneratedFiles}

(***************************************************************************)
(* JobFetcher of src/main.py                                               *)
(***************************************************************************)
\* self.platforms, in the order of the dict: the name of each board and the
\* template of its URL.
Platforms ==
    << <<"LinkedIn", "https://www.linkedin.com/jobs/search/?keywords={domain}">>,
       <<"Glassdoor", "https://www.glassdoor.com/Job/jobs.htm?sc.keyword={domain}">>,
       <<"Internshala", "https://internshala.com/jobs/keyword-{domain}">>,
       <<"Indeed", "https://www.indeed.com/jobs?q={domain}">>,
       <<"Naukri", "https://www.naukri.com/{domain}-jobs">> >>

\* url_template.format(domain=query)
Format(url_template, query) == Replace(url_template, "{domain}", query)

\* The URL requested from board b.
board_url(domain, b) ==
    Format(Platforms[b][2],
           IF Platforms[b][1] # "Naukri" THEN Replace(domain, " ", "%20")
           ELSE Replace(domain, " ", "-"))

\* The random module: a generator whose draws follow from its state. The
\* model's generator is a congruential one of period 16; random.choice
\* takes one draw.
next_random(r) == (5 * r + 3) % 16

random_choice(seq, r) == seq[(r % Len(seq)) + 1]

\* One listing of _generate_mock_jobs, drawn with the generator in state r:
\* the title, the company and the location take one draw each, in the
\* order of the keyword arguments.
mock_job(domain, platform, r) ==
    construct("JobListing", Kw(<<
        <<"job_title",
          PyStr(domain \o " "
                \o random_choice(<<"Developer", "Engineer", "Intern", "Analyst">>, r))>>,
        <<"company",
          PyStr(random_choice(<<"TechCorp", "Innovate Ltd", "Future Systems",
                                "Global Tech", "NextGen">>, next_random(r)))>>,
        <<"location",
          PyStr(random_choice(<<"Remote", "Bangalore, India", "San Francisco, CA",
                                "London, UK", "Hybrid">>,
                              next_random(next_random(r))))>>,
        <<"platform", PyStr(platform[1])>>,
        <<"link", PyStr(Format(platform[2], Replace(domain, " ", "-")))>>,
        <<"posted_date", PyStr("Recent")>>,
        <<"description",
          PyStr("Exciting opportunity in " \o domain \o " with " \o platform[1])>> >>))

\* The generator after the draws of one mock listing.
after_mock_job(r) == next_random(next_random(next_random(r)))

\* _generate_mock_jobs with range(1).
generate_one_mock_job(domain, platform, r) ==
    <<mock_job(domain, platform, r)>>

\* _generate_mock_jobs(domain, platform): two listings.
generate_mock_jobs(domain, platform, r) ==
    <<mock_job(domain, platform, r), mock_job(domain, platform, after_mock_job(r))>>

\* An element soup.select matched: the text of its title tag, the href of
\* that tag, the text of its company tag and of its location tag, each None
\* when the element has none.
Element(title, href, company, location) ==
    [title |-> title, href |-> href, company |-> company, location |-> location]

\* The JobListing of a matched element.
scraped_job(domain, platform, url, job) ==
    construct("JobListing", Kw(<<
        <<"job_title", IF job.title # PyNone THEN job.title
                       ELSE PyStr(domain \o " Job")>>,
        <<"company", IF job.company # PyNone THEN job.company
                     ELSE PyStr("Unknown Company")>>,
        <<"location", IF job.location # PyNone THEN job.location
                      ELSE PyStr("Remote/Unknown")>>,
        <<"platform", PyStr(platform[1])>>,
        <<"link", IF job.title # PyNone /\ job.href # PyNone /\ job.href.s # ""
                  THEN job.href ELSE PyStr(url)>>,
        <<"posted_date", PyStr("Recent")>>,
        <<"description", PyStr("Visit the link for more details")>> >>))

\* soup.select(...)[:3]
job_elements(matched) == SubSeq(matched, 1, IF Len(matched) < 3 THEN Len(matched) ELSE 3)

\* What one turn of the loop of fetch_jobs appends to jobs: the listings of
\* the three first matched elements, or two mock listings when the request
\* or the parse raised.
board_jobs(domain, platform, url, outcome, r) ==
    IF Raised(outcome) THEN generate_mock_jobs(domain, platform, r)
    ELSE [i \in 1..Len(job_elements(outcome.k)) |->
             scraped_job(domain, platform, url, job_elements(outcome.k)[i])]

\* jobs without a limit.
all_jobs(collected) == PyList(collected)

\* jobs[:5]
first_jobs(collected) ==
    PyList(SubSeq(collected, 1, IF Len(collected) < 5 THEN Len(collected) ELSE 5))

\* The elements the pages of the model hold: one with every tag, one with
\* none, one with a title that has no href and no location.
FullElement ==
    Element(PyStr("Data Analyst"), PyStr("/jobs/1"), PyStr("Acme"), PyStr("Pune"))

BareElement == Element(PyNone, PyNone, PyNone, PyNone)

PlainElement == Element(PyStr("ML Engineer"), PyStr(""), PyStr("Globex"), PyNone)

\* The outcomes of one board: requests.get or raise_for_status raises, the
\* parse raises, or the page matches the selectors 0, 1, 2, 3 or 4 times.
BoardOutcomes ==
    { PyRaise("RequestException"), PyRaise("Exception"),
      PyList(<<>>), PyList(<<FullElement>>), PyList(<<FullElement, BareElement>>),
      PyList(<<FullElement, BareElement, PlainElement>>),
      PyList(<<PlainElement, FullElement, BareElement, FullElement>>) }

\* The domains jobs are fetched for and the states the generator is in when
\* a fetch begins.
JobDomains == {"Data Science", "None"}

RandomSeeds == {0, 9}

(***************************************************************************)
(* StreamlitCareerApp of src/main.py: the system and its initialization    *)
(***************************************************************************)
\* CareerRecommendationSystem(api_key) once __init__ has returned: the key
\* the API was configured with, the empty chat_history and the job fetcher
\* with its table of boards.
CareerRecommendationSystem(api_key) ==
    [t |-> "CareerRecommendationSystem", s |-> api_key,
     n |-> <<"chat_history", "platforms">>,
     k |-> <<PyList(<<>>), PyList([b \in 1..Len(Platforms) |-> Strs(Platforms[b])])>>]

\* st.error, st.warning, st.success and st.info: one entry of the page (the
\* emoji the texts start with is left out).
Message(kind, text) == [kind |-> kind, text |-> text]

InvalidKeyMessage ==
    Message("error", "Invalid API key. Please provide a valid Gemini API key.")

KeyFormatMessage ==
    Message("warning", "API key format may be incorrect. "
                         \o "Gemini API keys typically start with 'AIza'.")

InitializedMessage ==
    Message("success", "Career Guidance System Successfully Initialized!")

EnterKeyMessage ==
    Message("info", "Please enter your Gemini API key in the sidebar to get started!")

\* The shortest key initialize_system takes.
MinKeyLen == 10

\* initialize_system with a failure that clears the handle of the session.
initialize_system_resetting(handle, key, constructed) ==
    IF key = "" \/ Len(key) < MinKeyLen
    THEN [career_system |-> PyNone, messages |-> <<InvalidKeyMessage>>]
    ELSE IF Raised(constructed)
        THEN [career_system |-> PyNone,
              messages |-> <<Message("error", "Initialization failed: " \o constructed.s)>>]
    ELSE [career_system |-> CareerRecommendationSystem(key),
          messages |-> <<InitializedMessage>>]

\* initialize_system(api_key) in a session whose handle is handle, when the
\* construction of the system ends as constructed (None, or a raise): the
\* handle of the session afterwards and what was reported.
initialize_system(handle, key, constructed) ==
    IF key = "" \/ Len(key) < MinKeyLen
    THEN [career_system |-> handle, messages |-> <<InvalidKeyMessage>>]
    ELSE The({ IF Raised(constructed)
               THEN [career_system |-> handle,
                     messages |-> warning
                         \o <<Message("error", "Initialization failed: " \o constructed.s)>>]
               ELSE [career_system |-> CareerRecommendationSystem(key),
                     messages |-> warning \o <<InitializedMessage>>]
               : warning \in {IF StartsWith(key, "AIza") THEN <<>>
                              ELSE <<KeyFormatMessage>>} })

\* What _handle_main_content adds to the page when no button of it is
\* pressed: the hint to enter a key while the session has no system.
main_content(handle) == IF handle = PyNone THEN <<EnterKeyMessage>> ELSE <<>>

\* The keys typed into the sidebar: none, one too short, one of the usual
\* form and one of another form; the key the sessions of the requests were
\* initialized with.
ApiKeys == {"", "AIza123", "AIzaSyD-valid", "sk-0123456789"}

SessionKey == "AIzaSyD-valid"

\* How the construction of the system ends.
ConstructionOutcomes == {PyNone, PyRaise("DefaultCredentialsError")}

(***************************************************************************)
(* State                                                                   *)
(***************************************************************************)
VARIABLES
    domains,      \* DomainKnowledgeBase.domains: domain name -> profile
    pc,           \* where the request in progress stands
    request,      \* the arguments of the current (or last) request
    calls,        \* the prompts sent to the LLM during this request, in order
    response,     \* the last outcome of generate_content: a text or a raise
    json_error,   \* the exception that sent the first attempt to the retry
    result,       \* what the request returned to its caller
    jobs,         \* fetch_jobs: the listings collected so far
    http,         \* fetch_jobs: the requests sent so far, each with its outcome
    rng,          \* the state of the random module's generator
    directory,    \* the domain directory on disk: "absent", or its files
    listing,      \* _load_domains: the files of os.listdir still to be read
    career_system, \* st.session_state.career_system: None, or the system
    api_key,      \* the text of the sidebar's key field
    messages      \* what this script run reported with st.error and the like

\* The locals of fetch_jobs and of _load_domains.
fetch_vars == <<jobs, http, rng>>

load_vars == <<directory, listing>>

\* The session of the presentation layer and its page.
app_vars == <<career_system, api_key, messages>>

vars == <<domains, pc, request, calls, response, json_error, result,
          fetch_vars, load_vars, app_vars>>

NoRequest == [op |-> "none", domain |-> "", level |-> "", query |-> "",
              domain_knowledge |-> PyNone]

Init ==
    /\ domains = KnowledgeBase
    /\ pc = "idle"
    /\ request = NoRequest
    /\ calls = <<>>
    /\ response = PyNone
    /\ json_error = PyNone
    /\ result = PyNone
    /\ jobs = <<>>
    /\ http = <<>>
    /\ rng = 0
    /\ directory = KnowledgeBaseFiles
    /\ listing = <<>>
    /\ career_system = CareerRecommendationSystem(SessionKey)
    /\ api_key = SessionKey
    /\ messages = <<>>

\* The request has returned to its caller, which has yet to render result.
Returned(op) == pc = "returned" /\ request.op = op

(***************************************************************************)
(* generate_career_guidance of src/main.py                                 *)
(***************************************************************************)
\* The emptiness test left out: every text is taken to the parse.
NeverEmpty(o) == FALSE

\* response.text is falsy
EmptyText(o) == o.t = "str" /\ o.s = ""

\* CareerGuidance(**parsed_data), or the raise of the extraction before it.
career_guidance(parsed) ==
    IF Raised(parsed) THEN parsed ELSE construct("CareerGuidance", parsed)

\* The parse path of both attempts: the text extracted and handed to the
\* model; a raise of either step.
guidance_from_text(text) ==
    The({ career_guidance(parsed) : parsed \in {extract_json_from_response(text)} })

\* The call of generate_career_guidance(domain, level, domain_knowledge):
\* the prompt is built and sent.
GuidanceRequest(domain, level, domain_knowledge) ==
    /\ pc = "idle"
    /\ pc' = "first_call"
    /\ request' = [op |-> "guidance", domain |-> domain, level |-> level,
                   query |-> "", domain_knowledge |-> domain_knowledge]
    /\ calls' = <<"guidance_prompt">>
    /\ response' = PyNone
    /\ json_error' = PyNone
    /\ result' = PyNone
    /\ UNCHANGED domains
    /\ messages' = <<>>
    /\ UNCHANGED <<fetch_vars, load_vars, career_system, api_key>>

\* The simplified prompt sent again after a first try of it.
simplified_prompt_twice == <<"simplified_prompt", "simplified_prompt">>

\* The prompts _generate_with_simplified_prompt sends.
simplified_prompt_calls == <<"simplified_prompt">>

\* The first call with every failure sent to the retry: a raise and an
\* empty text send the simplified prompt as a text that fails to parse does.
GuidanceFirstResponseRetrying(o) ==
    /\ pc = "first_call"
    /\ response' = o
    /\ \E guidance \in {IF Raised(o) THEN o
                         ELSE IF EmptyText(o) THEN PyRaise("ValueError")
                         ELSE guidance_from_text(o.s)} :
          IF Raised(guidance)
          THEN /\ json_error' = guidance
               /\ calls' = calls \o simplified_prompt_calls
               /\ pc' = "second_call"
               /\ UNCHANGED result
          ELSE /\ result' = guidance
               /\ pc' = "returned"
               /\ UNCHANGED <<calls, json_error>>
    /\ UNCHANGED <<domains, request>>
    /\ UNCHANGED <<fetch_vars, load_vars, app_vars>>

\* The first call ends with outcome o: a raise or an empty text returns the
\* fallback, a text that parses and validates returns the record, any other
\* text goes to _generate_with_simplified_prompt, which sends its prompt.
GuidanceFirstResponse(o) ==
    /\ pc = "first_call"
    /\ response' = o
    /\ IF Raised(o) \/ EmptyText(o)
       THEN /\ result' = generate_fallback_guidance(request.domain, request.level,
                                                    request.domain_knowledge)
            /\ pc' = "returned"
            /\ UNCHANGED <<calls, json_error>>
       ELSE \E guidance \in {guidance_from_text(o.s)} :
               IF Raised(guidance)
               THEN /\ json_error' = guidance
                    /\ calls' = calls \o simplified_prompt_calls
                    /\ pc' = "second_call"
                    /\ UNCHANGED result
               ELSE /\ result' = guidance
                    /\ pc' = "returned"
                    /\ UNCHANGED <<calls, json_error>>
    /\ UNCHANGED <<domains, request>>
    /\ UNCHANGED <<fetch_vars, load_vars, app_vars>>

\* _generate_with_simplified_prompt without its except clause: what the call
\* or the parse raises reaches the caller.
simplified_prompt_uncaught(domain, level, domain_knowledge, o) ==
    IF Raised(o) THEN o
    ELSE IF EmptyText(o)
        THEN generate_fallback_guidance(domain, level, domain_knowledge)
    ELSE guidance_from_text(o.s)

\* _generate_with_simplified_prompt with an except clause that returns
\* CareerGuidance() in place of the fallback.
simplified_prompt_defaults(domain, level, domain_knowledge, o) ==
    IF Raised(o) \/ EmptyText(o)
    THEN generate_fallback_guidance(domain, level, domain_knowledge)
    ELSE The({ IF Raised(guidance)
               THEN construct("CareerGuidance", PyDict(<<>>, <<>>))
               ELSE guidance
               : guidance \in {guidance_from_text(o.s)} })

\* What _generate_with_simplified_prompt returns when its call ends with
\* outcome o: the record of a text that parses and validates, else the
\* fallback.
simplified_prompt_result(domain, level, domain_knowledge, o) ==
    IF Raised(o) \/ EmptyText(o)
    THEN generate_fallback_guidance(domain, level, domain_knowledge)
    ELSE The({ IF Raised(guidance)
               THEN generate_fallback_guidance(domain, level, domain_knowledge)
               ELSE guidance
               : guidance \in {guidance_from_text(o.s)} })

\* The second call ends with outcome o.
GuidanceSecondResponse(o) ==
    /\ pc = "second_call"
    /\ response' = o
    /\ result' = simplified_prompt_result(request.domain, request.level,
                                          request.domain_knowledge, o)
    /\ pc' = "returned"
    /\ UNCHANGED <<domains, request, calls, json_error>>
    /\ UNCHANGED <<fetch_vars, load_vars, app_vars>>

(***************************************************************************)
(* ask_domain_question                                                     *)
(***************************************************************************)
AskRequest(domain, query) ==
    /\ pc = "idle"
    /\ pc' = "ask_call"
    /\ request' = [op |-> "ask", domain |-> domain, level |-> "",
                   query |-> query, domain_knowledge |-> PyNone]
    /\ calls' = <<"question_prompt">>
    /\ response' = PyNone
    /\ json_error' = PyNone
    /\ result' = PyNone
    /\ UNCHANGED domains
    /\ messages' = <<>>
    /\ UNCHANGED <<fetch_vars, load_vars, career_system, api_key>>

\* ask_domain_question without its except clause: the exception of the call
\* reaches the caller.
AskResponseUncaught(o) ==
    /\ pc = "ask_call"
    /\ response' = o
    /\ result' = o
    /\ pc' = "returned"
    /\ UNCHANGED <<domains, request, calls, json_error>>
    /\ UNCHANGED <<fetch_vars, load_vars, app_vars>>

\* ask_domain_question keeping the query in self.chat_history.
AskResponseRemembering(o) ==
    /\ pc = "ask_call"
    /\ response' = o
    /\ result' = IF Raised(o) THEN PyStr("Error processing query: " \o o.s) ELSE o
    /\ pc' = "returned"
    /\ career_system' =
          [career_system EXCEPT
              !.k[1] = PyList(Append(career_system.k[1].k, PyStr(request.query)))]
    /\ UNCHANGED <<domains, request, calls, json_error>>
    /\ UNCHANGED <<fetch_vars, load_vars, api_key, messages>>

AskResponse(o) ==
    /\ pc = "ask_call"
    /\ response' = o
    /\ result' = IF Raised(o) THEN PyStr("Error processing query: " \o o.s) ELSE o
    /\ pc' = "returned"
    /\ UNCHANGED <<domains, request, calls, json_error>>
    /\ UNCHANGED <<fetch_vars, load_vars, app_vars>>

(***************************************************************************)
(* generate_career_guidance of src/original.py                             *)
(***************************************************************************)
\* self.output_parser.parse(response.content): the JSON object of the text,
\* validated against CareerGuidance; a raise when there is none.
output_parser_parse(text) ==
    IF json_span(text) = "" THEN PyRaise("OutputParserException")
    ELSE The({ IF Raised(guidance) THEN PyRaise("OutputParserException")
               ELSE guidance
               : guidance \in { The({ IF Raised(data) THEN data
                                      ELSE validate_model("CareerGuidance", data)
                                      : data \in {json_loads(json_span(text))} }) } })

OriginalGuidanceRequest(domain, level, domain_knowledge) ==
    /\ pc = "idle"
    /\ pc' = "original_call"
    /\ request' = [op |-> "original_guidance", domain |-> domain, level |-> level,
                   query |-> "", domain_knowledge |-> domain_knowledge]
    /\ calls' = <<"guidance_prompt">>
    /\ response' = PyNone
    /\ json_error' = PyNone
    /\ result' = PyNone
    /\ UNCHANGED domains
    /\ messages' = <<>>
    /\ UNCHANGED <<fetch_vars, load_vars, career_system, api_key>>

OriginalGuidanceResponse(o) ==
    /\ pc = "original_call"
    /\ response' = o
    /\ IF Raised(o)
       THEN result' = original_generate_fallback_guidance(
                          request.domain, request.level, request.domain_knowledge)
       ELSE \E guidance \in {output_parser_parse(o.s)} :
               result' = IF Raised(guidance)
                         THEN original_generate_fallback_guidance(
                                  request.domain, request.level,
                                  request.domain_knowledge)
                         ELSE guidance
    /\ pc' = "returned"
    /\ UNCHANGED <<domains, request, calls, json_error>>
    /\ UNCHANGED <<fetch_vars, load_vars, app_vars>>

(***************************************************************************)
(* DomainKnowledgeBase._load_domains of src/main.py                        *)
(***************************************************************************)
\* __init__ of a new script run: no domains yet, and any directory.
LoadInit ==
    /\ domains = PyDict(<<>>, <<>>)
    /\ pc = "construct"
    /\ request = NoRequest
    /\ calls = <<>>
    /\ response = PyNone
    /\ json_error = PyNone
    /\ result = PyNone
    /\ jobs = <<>>
    /\ http = <<>>
    /\ rng = 0
    /\ directory \in Directories
    /\ listing = <<>>
    /\ career_system = PyNone
    /\ api_key = ""
    /\ messages = <<>>

\* The directory after the test of os.path.exists: a missing one is made
\* and given the sample file.
ensure_directory(dir) ==
    IF dir.exists THEN dir ELSE Directory(TRUE, <<sample_file>>)

\* The entry of _load_domains, up to os.listdir.
LoadDomains ==
    /\ pc = "construct"
    /\ directory' = ensure_directory(directory)
    /\ listing' = directory'.files
    /\ pc' = "listing"
    /\ UNCHANGED <<domains, request, calls, response, json_error, result, fetch_vars, app_vars>>

\* One turn of the loop over os.listdir: a file that is no .txt or that
\* open() refuses is passed over, a file that parses is stored under its
\* name, and a raise of the parse ends the loop in the except clause, which
\* stores the default profile.
LoadFile ==
    /\ pc = "listing"
    /\ listing # <<>>
    /\ \E file \in {Head(listing)} :
          IF ~EndsWith(file.name, ".txt") \/ Raised(file.content)
          THEN /\ listing' = Tail(listing)
               /\ UNCHANGED <<domains, pc>>
          ELSE \E parsed \in {parse_domain_content(file.content.s)} :
                  IF Raised(parsed)
                  THEN /\ domains' = DictSet(domains, "default", get_default_domain)
                       /\ listing' = <<>>
                       /\ pc' = "loaded"
                  ELSE /\ domains' = DictSet(domains, Replace(file.name, ".txt", ""),
                                             parsed)
                       /\ listing' = Tail(listing)
                       /\ UNCHANGED pc
    /\ UNCHANGED <<directory, request, calls, response, json_error, result, fetch_vars, app_vars>>

\* The loop is over: _load_domains returns.
LoadDone ==
    /\ pc = "listing"
    /\ listing = <<>>
    /\ pc' = "loaded"
    /\ UNCHANGED <<domains, directory, listing, request, calls, response,
                   json_error, result, fetch_vars, app_vars>>

LoadNext == LoadDomains \/ LoadFile \/ LoadDone

LoadSpec == LoadInit /\ [][LoadNext]_vars

(***************************************************************************)
(* JobFetcher.fetch_jobs of src/main.py                                    *)
(***************************************************************************)
\* The call of fetch_jobs(domain): jobs = [].
FetchJobsRequest(domain, seed) ==
    /\ pc = "idle"
    /\ pc' = "fetch_jobs"
    /\ request' = [op |-> "jobs", domain |-> domain, level |-> "", query |-> "",
                   domain_knowledge |-> PyNone]
    /\ jobs' = <<>>
    /\ http' = <<>>
    /\ rng' = seed
    /\ messages' = <<>>
    /\ UNCHANGED <<domains, calls, response, json_error, result, load_vars,
                   career_system, api_key>>

\* A loop that ends as soon as five listings are collected.
boards_until_five(collected, requested) ==
    Len(requested) < Len(Platforms) /\ Len(collected) < 5

\* for platform, url_template in self.platforms.items(): the loop goes on
\* while a board of the table has not been requested, whatever was collected.
more_boards(collected, requested) == Len(requested) < Len(Platforms)

\* A turn of the loop that puts the listings of the board before those
\* collected so far.
FetchBoardPrepending(outcome) ==
    /\ pc = "fetch_jobs"
    /\ more_boards(jobs, http)
    /\ \E b \in {Len(http) + 1} :
          /\ http' = Append(http, [platform |-> Platforms[b][1],
                                   url |-> board_url(request.domain, b),
                                   outcome |-> outcome])
          /\ jobs' = board_jobs(request.domain, Platforms[b],
                                board_url(request.domain, b), outcome, rng) \o jobs
    /\ rng' = IF Raised(outcome) THEN after_mock_job(after_mock_job(rng)) ELSE rng
    /\ UNCHANGED <<domains, pc, request, calls, response, json_error, result, load_vars,
                   app_vars>>

\* One turn of the loop over self.platforms: the next board is requested
\* and its listings, scraped or mock, are appended; the mock listings move
\* the generator.
FetchBoard(outcome) ==
    /\ pc = "fetch_jobs"
    /\ more_boards(jobs, http)
    /\ \E b \in {Len(http) + 1} :
          /\ http' = Append(http, [platform |-> Platforms[b][1],
                                   url |-> board_url(request.domain, b),
                                   outcome |-> outcome])
          /\ jobs' = jobs \o board_jobs(request.domain, Platforms[b],
                                        board_url(request.domain, b), outcome, rng)
    /\ rng' = IF Raised(outcome) THEN after_mock_job(after_mock_job(rng)) ELSE rng
    /\ UNCHANGED <<domains, pc, request, calls, response, json_error, result, load_vars,
                   app_vars>>

\* The loop is over: return jobs[:5].
FetchJobsReturn ==
    /\ pc = "fetch_jobs"
    /\ ~more_boards(jobs, http)
    /\ result' = first_jobs(jobs)
    /\ pc' = "returned"
    /\ UNCHANGED <<domains, request, calls, response, json_error, jobs, http, rng,
                   load_vars, app_vars>>

(***************************************************************************)
(* The session                                                             *)
(***************************************************************************)
\* The presentation layer renders what the request returned and the script
\* run ends: nothing of the request is kept for the next one.
Render ==
    /\ pc = "returned"
    /\ pc' = "idle"
    /\ request' = NoRequest
    /\ calls' = <<>>
    /\ response' = PyNone
    /\ json_error' = PyNone
    /\ result' = PyNone
    /\ jobs' = <<>>
    /\ http' = <<>>
    /\ rng' = 0
    /\ UNCHANGED <<domains, load_vars, app_vars>>

\* The domains a request can name: those of the knowledge base with their
\* profiles, and a name it lacks, for which domains.get(domain, {}) gives {}.
RequestDomains ==
    {<<domains.n[i], domains.k[i]>> : i \in 1..Len(domains.n)}
        \cup {<<"None", PyDict(<<>>, <<>>)>>}

Next ==
    \/ \E d \in RequestDomains, level \in Levels : GuidanceRequest(d[1], level, d[2])
    \/ \E o \in LLMOutcomes : GuidanceFirstResponse(o)
    \/ \E o \in LLMOutcomes : GuidanceSecondResponse(o)
    \/ \E d \in RequestDomains, query \in Queries : AskRequest(d[1], query)
    \/ \E o \in LLMOutcomes : AskResponse(o)
    \/ \E d \in RequestDomains, level \in Levels :
          OriginalGuidanceRequest(d[1], level, d[2])
    \/ \E o \in LLMOutcomes : OriginalGuidanceResponse(o)
    \/ Render

Spec == Init /\ [][Next]_vars

\* The job suggestions of a session: fetches, one after the other.
JobNext ==
    \/ \E domain \in JobDomains, seed \in RandomSeeds : FetchJobsRequest(domain, seed)
    \/ \E outcome \in BoardOutcomes : FetchBoard(outcome)
    \/ FetchJobsReturn
    \/ Render

JobSpec == Init /\ [][JobNext]_vars

(***************************************************************************)
(* StreamlitCareerApp of src/main.py: the script runs of a session         *)
(***************************************************************************)
\* The first script run of a session: the knowledge base is loaded,
\* career_system is put into the session as None, the key field is empty
\* and the page shows the hint of _handle_main_content.
AppInit ==
    /\ domains = KnowledgeBase
    /\ pc = "idle"
    /\ request = NoRequest
    /\ calls = <<>>
    /\ response = PyNone
    /\ json_error = PyNone
    /\ result = PyNone
    /\ jobs = <<>>
    /\ http = <<>>
    /\ rng = 0
    /\ directory = KnowledgeBaseFiles
    /\ listing = <<>>
    /\ career_system = PyNone
    /\ api_key = ""
    /\ messages = <<EnterKeyMessage>>

\* The user changes the key in the sidebar: a script run with no button
\* pressed.
EnterApiKey(key) ==
    /\ pc = "idle"
    /\ key # api_key
    /\ api_key' = key
    /\ messages' = main_content(career_system)
    /\ UNCHANGED <<domains, pc, request, calls, response, json_error, result,
                   fetch_vars, load_vars, career_system>>

\* The script run after "Initialize System" was pressed: _setup_sidebar
\* calls initialize_system when the key field is not empty, then
\* _handle_main_content draws the page.
InitializeClicked(constructed) ==
    /\ pc = "idle"
    /\ IF api_key = ""
       THEN /\ messages' = main_content(career_system)
            /\ UNCHANGED career_system
       ELSE \E r \in {initialize_system(career_system, api_key, constructed)} :
               /\ career_system' = r.career_system
               /\ messages' = r.messages \o main_content(r.career_system)
    /\ UNCHANGED <<domains, pc, request, calls, response, json_error, result,
                   fetch_vars, load_vars, api_key>>

\* The test of _handle_main_content left out: the buttons are drawn in
\* every session.
always_ready(handle) == TRUE

\* if st.session_state.career_system: the buttons of the main content are
\* drawn, and can be pressed, only in a session that has a system.
system_ready(handle) == handle # PyNone

\* "Generate Career Guidance", "Job Suggestions" and "Get Advice" pressed.
GenerateClicked(domain, level, domain_knowledge) ==
    /\ system_ready(career_system)
    /\ GuidanceRequest(domain, level, domain_knowledge)

JobSuggestionsClicked(domain, seed) ==
    /\ system_ready(career_system)
    /\ FetchJobsRequest(domain, seed)

GetAdviceClicked(domain, query) ==
    /\ system_ready(career_system)
    /\ query # ""
    /\ AskRequest(domain, query)

\* The domains, replies and board outcomes of the sessions: a domain of
\* the knowledge base; a raise, no text, prose and a record; a failure and
\* a page with one listing.
AppDomains == {d \in RequestDomains : d[1] = "Data Science"}

AppOutcomes ==
    {PyRaise("429 Quota exceeded"), PyStr(""), PyStr(ProseReply), PyStr(WrappedReply)}

AppBoardOutcomes == {PyRaise("RequestException"), PyList(<<FullElement>>)}

AppNext ==
    \/ \E key \in ApiKeys : EnterApiKey(key)
    \/ \E constructed \in ConstructionOutcomes : InitializeClicked(constructed)
    \/ \E d \in AppDomains : GenerateClicked(d[1], "Beginner", d[2])
    \/ \E o \in AppOutcomes : GuidanceFirstResponse(o)
    \/ \E o \in AppOutcomes : GuidanceSecondResponse(o)
    \/ \E d \in AppDomains, seed \in RandomSeeds : JobSuggestionsClicked(d[1], seed)
    \/ \E outcome \in AppBoardOutcomes : FetchBoard(outcome)
    \/ FetchJobsReturn
    \/ \E d \in AppDomains, query \in Queries : GetAdviceClicked(d[1], query)
    \/ \E o \in AppOutcomes : AskResponse(o)
    \/ Render

AppSpec == AppInit /\ [][AppNext]_vars

(***************************************************************************)
(* Properties                                                              *)
(***************************************************************************)
\* The fallback record of the request in progress.
RequestFallback ==
    generate_fallback_guidance(request.domain, request.level, request.domain_knowledge)

\* The attempt that outcome o ends has failed: the call raised, the text is
\* empty, or its extraction or validation raises.
FailedOutcome(o) ==
    \/ o.t = "raise"
    \/ o.t = "str" /\ o.s = ""
    \/ o.t = "str" /\ o.s # "" /\ Raised(guidance_from_text(o.s))

\* The list fields of CareerGuidance.
SequenceFields ==
    {CareerGuidance[i].name : i \in {j \in 1..Len(CareerGuidance) :
                                        CareerGuidance[j].kind # "str"}}

\* A populated record: an overview and at least one non-empty list.
Populated(r) ==
    /\ Get(r, "domain_overview").s # ""
    /\ \E f \in SequenceFields : Len(Get(r, f).k) > 0

\* C1: generate_career_guidance never raises: whatever the first and the
\* second LLM call give (a raise, an empty text, a text that does or does
\* not parse), the request that has returned has returned a CareerGuidance
\* record and no exception.
C1_NeverRaises ==
    Returned("guidance") => result.t = "CareerGuidance" /\ ~Raised(result)

\* The first reply failed validation, the second call raised, and a record
\* came back.
C1_Witness ==
    /\ Returned("guidance")
    /\ json_error = PyRaise("ValidationError")
    /\ Len(calls) = 2
    /\ Raised(response)
    /\ result.t = "CareerGuidance"

\* C2: every record generate_career_guidance returns is populated: a
\* non-empty domain_overview and at least one non-empty list, whatever JSON
\* object the reply is.
C2_AlwaysPopulated ==
    Returned("guidance") => Populated(result)

\* The reply {} came back as the record of defaults.
C2_Witness ==
    /\ Returned("guidance")
    /\ response = PyStr("{}")
    /\ Get(result, "domain_overview") = PyStr("")
    /\ \A f \in SequenceFields : Get(result, f) = PyList(<<>>)

\* C3: when generation fails (the first call raises, the reply is empty, or
\* both attempts fail to parse) the record returned equals the one
\* _generate_fallback_guidance gives for the same domain, level and
\* profile, computed anew.
C3_FailureGivesFallback ==
    (Returned("guidance") /\ FailedOutcome(response)) => result = RequestFallback

\* Both attempts got prose, and the fallback came back.
C3_Witness ==
    /\ Returned("guidance")
    /\ json_error = PyRaise("ValueError")
    /\ response = PyStr(ProseReply)
    /\ result = RequestFallback

\* C4: a parse error is retried exactly once: a first reply that is not
\* empty and fails to parse sends the simplified prompt, once; no request
\* makes a third call; a second attempt that fails returns the fallback;
\* and a step that returns makes no call.
C4_RetriedOnce ==
    [][ /\ (pc = "first_call" /\ response'.t = "str" /\ response'.s # ""
              /\ Raised(guidance_from_text(response'.s)))
           => (pc' = "second_call"
                 /\ calls' = <<"guidance_prompt", "simplified_prompt">>)
        /\ pc = "second_call"
           => /\ pc' = "returned"
              /\ calls' = calls
              /\ FailedOutcome(response')
                 => result' = generate_fallback_guidance(
                                  request.domain, request.level,
                                  request.domain_knowledge)
        /\ (request.op = "guidance" /\ pc' = "returned") => calls' = calls
        /\ Len(calls') <= 2 ]_vars

\* The second attempt got an object that fails validation, and the fallback
\* came back after two calls.
C4_Witness ==
    /\ Returned("guidance")
    /\ calls = <<"guidance_prompt", "simplified_prompt">>
    /\ response.t = "str" /\ response.s \in InvalidReplies
    /\ result = RequestFallback

\* C5 as stated: each guidance request and each question request issues
\* exactly one LLM call.
C5_ExactlyOneCall ==
    pc # "idle" => Len(calls) = 1

\* C5: a question request and a guidance request of original.py issue
\* exactly one LLM call; a guidance request of main.py issues one, and a
\* second one exactly when the first reply is not empty and fails to parse.
C5_OneCallOrRetry ==
    /\ request.op \in {"ask", "original_guidance"} => Len(calls) = 1
    /\ request.op = "guidance"
       => /\ Len(calls) \in {1, 2}
          /\ Len(calls) = 2 <=> json_error # PyNone
          /\ pc = "first_call" => Len(calls) = 1
          /\ pc = "second_call"
             => /\ Len(calls) = 2
                /\ response.t = "str" /\ response.s # ""
                /\ json_error = guidance_from_text(response.s)
                /\ Raised(json_error)
          /\ (pc = "returned" /\ Len(calls) = 1)
             => \/ response.t = "raise"
                \/ response.t = "str" /\ response.s = ""
                \/ response.t = "str" /\ ~Raised(guidance_from_text(response.s))

\* The retry got a valid object: two calls, and the parsed record.
C5_Witness ==
    /\ Returned("guidance")
    /\ Len(calls) = 2
    /\ response = PyStr(ObjectText({1}))
    /\ result = guidance_from_text(response.s)

\* The record a reply with exactly the fields of S is to give.
ExpectedRecord(S) ==
    PyModel("CareerGuidance",
            [i \in 1..Len(CareerGuidance) |->
                IF i \in S THEN FieldValue(i)
                ELSE IF CareerGuidance[i].kind = "str" THEN PyStr("")
                ELSE PyList(<<>>)])

\* The record ExtraFieldsReply is to give: the overview, one skill with its
\* name, and nothing of confidence, notes or rank.
ExtraFieldsRecord ==
    PyModel("CareerGuidance",
            [i \in 1..Len(CareerGuidance) |->
                IF i = 1 THEN PyStr("Data work")
                ELSE IF i = 3
                    THEN PyList(<<PyModel("SkillDetail",
                             <<PyStr("SQL"), PyStr(""), PyStr(""), PyList(<<>>),
                               PyList(<<>>), PyList(<<>>), PyList(<<>>)>>)>>)
                ELSE PyList(<<>>)])

\* C6: a reply that is a valid JSON object matching the schema is returned
\* after a single call, never sent to the retry, and every field it carries
\* has the value written in the reply; fields the schema does not know are
\* ignored and the known ones are unchanged.
C6_ValidReplyReturned ==
    /\ \A S \in PresentSets :
          response = PyStr(ObjectText(S))
          => /\ pc # "second_call"
             /\ (Returned("guidance") /\ Len(calls) = 1)
                => /\ result.t = "CareerGuidance"
                   /\ \A i \in S : result.k[i] = FieldValue(i)
    /\ response = PyStr(ExtraFieldsReply)
       => /\ pc # "second_call"
          /\ (Returned("guidance") /\ Len(calls) = 1) => result = ExtraFieldsRecord

\* The reply with all ten fields came back after one call.
C6_Witness ==
    /\ Returned("guidance")
    /\ calls = <<"guidance_prompt">>
    /\ response = PyStr(ObjectText(1..10))
    /\ result = ExpectedRecord(1..10)

\* Every list field of a record holds a list, and so does every list field
\* of the records in it.
NoNullSequence(r) ==
    \A i \in 1..Len(ModelFields(r.t)) :
        ModelFields(r.t)[i].kind \in {"List[str]", "List[model]"}
        => /\ r.k[i].t = "list"
           /\ ModelFields(r.t)[i].kind = "List[model]"
              => \A j \in 1..Len(r.k[i].k) :
                    \A m \in 1..Len(ModelFields(r.k[i].k[j].t)) :
                        ModelFields(r.k[i].k[j].t)[m].kind = "List[str]"
                        => r.k[i].k[j].k[m].t = "list"

\* The course of SparseCourseReply: its name, and every other field at its
\* default.
SparseCourse ==
    PyModel("CourseDetail",
            <<PyStr("ML"), PyStr(""), PyStr(""), PyStr(""), PyStr(""),
              PyList(<<>>), PyList(<<>>), PyBool(FALSE), PyNone>>)

\* C7: a field the reply lacks is at its default in the record (empty
\* string, empty list, false, no price) and a field it carries is at its
\* parsed value; and in every record returned, parsed or fallback, every
\* list field is a list, never null.
C7_AbsentFieldsDefault ==
    Returned("guidance")
    => /\ NoNullSequence(result)
       /\ \A S \in PresentSets :
             response = PyStr(ObjectText(S)) => result = ExpectedRecord(S)
       /\ response = PyStr(SparseCourseReply)
          => result = [ExpectedRecord({}) EXCEPT !.k[4] = PyList(<<SparseCourse>>)]

\* The course that carries its name only came back with no certification
\* and no price.
C7_Witness ==
    /\ Returned("guidance")
    /\ response = PyStr(SparseCourseReply)
    /\ Get(Get(result, "recommended_courses").k[1], "certification") = PyBool(FALSE)
    /\ Get(Get(result, "recommended_courses").k[1], "price") = PyNone

\* What the trailing-comma replies are to parse as.
TrailingCommaValue ==
    PyDict(<<"current_industry_trends", "certifications_needed">>,
           <<PyList(<<PyStr("AI"), PyStr("Cloud")>>), PyList(<<PyStr("CDP")>>)>>)

\* What is left of a comma in the form c: the whitespace around it.
CommaRemoved(c) == IF c = " ,\n " THEN " \n " ELSE ""

\* C8: of a reply that is an object followed by commentary, the span from
\* the first brace to the last is isolated, every comma that only whitespace
\* separates from a closing bracket or brace is removed, and the rest is
\* parsed: {"a": [1,2,]} parses as {"a": [1,2]}.
C8_TrailingCommasRemoved ==
    /\ \A c \in CommaPlacements, tail \in Commentary :
          response = PyStr(TrailingCommaBody(c[1], c[2]) \o tail)
          => /\ json_span(response.s) = TrailingCommaBody(c[1], c[2])
             /\ StripTrailingCommas(json_span(response.s))
                  = TrailingCommaBody(CommaRemoved(c[1]), CommaRemoved(c[2]))
             /\ extract_json_from_response(response.s) = TrailingCommaValue
             /\ Returned("guidance")
                => /\ Get(result, "current_industry_trends")
                        = PyList(<<PyStr("AI"), PyStr("Cloud")>>)
                   /\ Get(result, "certifications_needed") = PyList(<<PyStr("CDP")>>)
    /\ \A tail \in Commentary :
          response = PyStr(ExampleReply \o tail)
          => /\ json_span(response.s) = ExampleReply
             /\ extract_json_from_response(response.s)
                  = PyDict(<<"a">>, <<PyList(<<PyNum("1"), PyNum("2")>>)>>)

\* The example followed by commentary was parsed at the first attempt.
C8_Witness ==
    /\ Returned("guidance")
    /\ calls = <<"guidance_prompt">>
    /\ response = PyStr(ExampleReply \o " Hope this helps!")
    /\ result = ExpectedRecord({})

\* C9: a reply cut off inside its last string literal is repaired: the
\* literal and the object are closed, and the extraction gives a value
\* instead of raising.
C9_CutOffStringRepaired ==
    (response.t = "str" /\ response.s \in {TruncatedInString, TruncatedAfterRecord})
    => ~Raised(extract_json_from_response(response.s))

\* The reply cut off inside the overview went to the retry with the
\* ValueError of the extraction.
C9_Witness ==
    /\ pc = "second_call"
    /\ response = PyStr(TruncatedInString)
    /\ json_error = PyRaise("ValueError")

\* The fallback came back because the call raised.
FallbackReturned(op) == Returned(op) /\ Raised(response)

\* request's core skills, and the roadmap of the record returned.
CoreSkills == DictGet(request.domain_knowledge, "core_skills", PyList(<<>>)).k

Roadmap == Get(result, "skill_roadmap").k

\* The entries at index < 3 are Essential, the later ones Important.
ImportanceByIndex ==
    \A i \in 1..Len(Roadmap) :
        Get(Roadmap[i], "importance_level")
            = PyStr(IF i - 1 < 3 THEN "Essential" ELSE "Important")

\* The roadmap has one entry per core skill, in order.
OneEntryPerSkill ==
    /\ Len(Roadmap) = Len(CoreSkills)
    /\ \A i \in 1..Len(Roadmap) : Get(Roadmap[i], "skill_name") = CoreSkills[i]

RequestProfile == request.domain_knowledge

\* The overview and the trends main.py synthesises.
SynthesisedOverview ==
    PyStr("The " \o request.domain
          \o " field is a dynamic and growing area that combines "
          \o Join(", ", Take(PyList(CoreSkills), 3))
          \o " to solve real-world problems. As a " \o request.level
          \o " professional, you'll focus on building foundational skills and gaining practical experience through hands-on projects.")

SynthesisedTrends ==
    PyList(<<PyStr("Increased demand for " \o request.domain \o " professionals"),
             PyStr("Growing adoption of "
                   \o (IF HasKey(RequestProfile, "tools_and_technologies")
                          /\ Len(Get(RequestProfile, "tools_and_technologies").k) > 0
                       THEN Get(RequestProfile, "tools_and_technologies").k[1].s
                       ELSE "modern tools")),
             PyStr("Remote work opportunities expanding"),
             PyStr("Focus on practical, project-based learning"),
             PyStr("Industry emphasis on continuous skill development")>>)

\* The overview is the profile's description and the trends are its
\* industry standards.
OverviewFromProfile ==
    /\ HasKey(RequestProfile, "description")
       => Get(result, "domain_overview") = Get(RequestProfile, "description")
    /\ HasKey(RequestProfile, "industry_standards")
       => Get(result, "current_industry_trends")
            = Get(RequestProfile, "industry_standards")

\* C11 as stated: in the fallback record of either file the overview is the
\* profile's description and the trends are its industry standards.
C11_OverviewFromDescription ==
    \A op \in {"guidance", "original_guidance"} :
        FallbackReturned(op) => OverviewFromProfile

\* C11: the fallback of original.py takes the overview from the profile's
\* description ("Overview of <domain>" for a profile without one) and the
\* trends from its industry standards (none for a profile without them);
\* the fallback of main.py takes neither from the profile: its overview is
\* a sentence built from the domain, the first three core skills and the
\* level, and its trends are five fixed lines.
C11_OverviewByFile ==
    /\ FallbackReturned("original_guidance")
       => /\ OverviewFromProfile
          /\ ~HasKey(RequestProfile, "description")
             => Get(result, "domain_overview")
                  = PyStr("Overview of " \o request.domain)
          /\ ~HasKey(RequestProfile, "industry_standards")
             => Get(result, "current_industry_trends") = PyList(<<>>)
    /\ FallbackReturned("guidance")
       => /\ Get(result, "domain_overview") = SynthesisedOverview
          /\ Get(result, "current_industry_trends") = SynthesisedTrends
          /\ HasKey(RequestProfile, "description")
             => Get(result, "domain_overview") # Get(RequestProfile, "description")

\* The fallback of original.py came back with the description and the
\* standards of a profile that has both.
C11_Witness ==
    /\ FallbackReturned("original_guidance")
    /\ Get(result, "domain_overview") = PyStr("All about Data Science")
    /\ Get(result, "current_industry_trends")
         = PyList(<<PyStr("ISO 27001"), PyStr("GDPR")>>)

\* The career levels the profile declares, and the paths of the record.
CareerLevels == DictGet(RequestProfile, "career_levels", PyList(<<>>)).k

Paths == Get(result, "career_growth_paths").k

\* One path per declared career level, in declaration order.
OnePathPerLevel ==
    /\ Len(Paths) = Len(CareerLevels)
    /\ \A i \in 1..Len(Paths) : Get(Paths[i], "title") = CareerLevels[i]

\* C12 as stated: in the fallback record of either file career_growth_paths
\* has one CareerPath per career level the profile declares, in order.
C12_OnePathPerLevel ==
    \A op \in {"guidance", "original_guidance"} :
        FallbackReturned(op) => OnePathPerLevel

\* C12: the fallback of original.py has one CareerPath per career level of
\* the profile, in declaration order and titled after it (a profile
\* without the career_levels key gets one path, "<level> <domain>
\* Professional"); the fallback of main.py has two paths, "Junior <domain>
\* Professional" and "Mid-level <domain> Professional", whatever levels
\* the profile declares.
C12_PathsByFile ==
    /\ FallbackReturned("original_guidance")
       => IF HasKey(RequestProfile, "career_levels") THEN OnePathPerLevel
          ELSE /\ Len(Paths) = 1
               /\ Get(Paths[1], "title")
                    = PyStr(request.level \o " " \o request.domain \o " Professional")
    /\ FallbackReturned("guidance")
       => /\ Len(Paths) = 2
          /\ Get(Paths[1], "title")
               = PyStr("Junior " \o request.domain \o " Professional")
          /\ Get(Paths[2], "title")
               = PyStr("Mid-level " \o request.domain \o " Professional")

\* The fallback of original.py came back with the three levels of a
\* profile as its three paths.
C12_Witness ==
    /\ FallbackReturned("original_guidance")
    /\ Len(CareerLevels) = 3
    /\ Len(Paths) = 3
    /\ Get(Paths[1], "title") = PyStr("Junior")
    /\ Get(Paths[3], "title") = PyStr("Lead")

\* C13: ask_domain_question never raises: a call that succeeds returns the
\* text of the reply unchanged, and a call that raises returns the string
\* "Error processing query: " followed by the message of the exception.
C13_AskNeverRaises ==
    Returned("ask")
    => /\ result.t = "str"
       /\ response.t = "str" => result = response
       /\ response.t = "raise"
          => result = PyStr("Error processing query: " \o response.s)

\* The call raised and the error string came back.
C13_Witness ==
    /\ Returned("ask")
    /\ response = PyRaise("429 Quota exceeded")
    /\ result = PyStr("Error processing query: 429 Quota exceeded")

\* Loading the files of the knowledge base gives the knowledge base the
\* requests start from.
KnowledgeBaseLoaded ==
    (pc = "loaded" /\ directory = KnowledgeBaseFiles) => domains = KnowledgeBase

\* The profile stored for the file of that name.
Loaded(name) == Get(domains, name)

\* C17: loading the file whose lines are "Name: X", "Description: Y",
\* "Core Skills:" and two "-" items gives a profile with name "X",
\* description "Y" and the two trimmed items as core_skills, in order.
C17_PrefixedFieldsCaptured ==
    (pc = "loaded" /\ directory.files = <<PrefixedFile>>)
    => /\ HasKey(domains, "Prefixed")
       /\ Get(Loaded("Prefixed"), "core_skills") = PyList(<<PyStr("Python"), PyStr("SQL")>>)
       /\ Get(Loaded("Prefixed"), "name") = PyStr("X")
       /\ Get(Loaded("Prefixed"), "description") = PyStr("Y")

\* The file was loaded with its two core skills and neither its name nor
\* its description.
C17_Witness ==
    /\ pc = "loaded"
    /\ directory.files = <<PrefixedFile>>
    /\ Get(Loaded("Prefixed"), "core_skills") = PyList(<<PyStr("Python"), PyStr("SQL")>>)
    /\ Get(Loaded("Prefixed"), "name") = PyStr("")
    /\ Get(Loaded("Prefixed"), "description") = PyStr("")

\* The lines of the files that are headers, and the one among them that
\* names no section.
HeaderLines == {"Name:", "Description:", "Core Skills:", "Career Levels:", "Hobbies:"}

UnknownHeader == "Hobbies:"

\* Where the section that line i of lines opens ends: before the next
\* header, or with the file.
SectionEnd(lines, i) ==
    IF \E j \in (i + 1)..Len(lines) : lines[j] \in HeaderLines
    THEN Min({j \in (i + 1)..Len(lines) : lines[j] \in HeaderLines}) - 1
    ELSE Len(lines)

\* The file without the section line i opens.
WithoutSection(lines, i) ==
    JoinLines(SubSeq(lines, 1, i - 1)
                \o SubSeq(lines, SectionEnd(lines, i) + 1, Len(lines)), 1)

\* C18: an unknown section header is ignored with its items: the profile of
\* a file is the profile of the same file without the unknown header and
\* the lines up to the next header, so none of these items reaches any of
\* the lists, the section open before included, and the sections after it
\* are read as usual.
C18_UnknownSectionDropped ==
    /\ (pc = "loaded" /\ Len(directory.files) = 1
          /\ directory.files[1].name \in {"Generated.txt", "Unknown.txt"})
       => \A i \in 1..Len(Split(directory.files[1].content.s, "\n")) :
             Split(directory.files[1].content.s, "\n")[i] = UnknownHeader
             => /\ parse_domain_content(directory.files[1].content.s)
                     = parse_domain_content(
                           WithoutSection(Split(directory.files[1].content.s, "\n"), i))
                /\ HasKey(domains, Replace(directory.files[1].name, ".txt", ""))
                   => Loaded(Replace(directory.files[1].name, ".txt", ""))
                        = parse_domain_content(
                              WithoutSection(Split(directory.files[1].content.s, "\n"), i))
    /\ (pc = "loaded" /\ directory.files = <<UnknownSectionFile>>)
       => Loaded("Unknown")
            = DictSet(DictSet(EmptySections, "core_skills", PyList(<<PyStr("Python")>>)),
                      "career_levels", PyList(<<PyStr("Junior")>>))

\* The file with Hobbies between Core Skills and Career Levels was loaded
\* with one core skill and one career level.
C18_Witness ==
    /\ pc = "loaded"
    /\ directory.files = <<UnknownSectionFile>>
    /\ Get(Loaded("Unknown"), "core_skills") = PyList(<<PyStr("Python")>>)
    /\ Get(Loaded("Unknown"), "career_levels") = PyList(<<PyStr("Junior")>>)

\* C19: no content makes loading fail: once loading is over every readable
\* .txt file of the directory, whatever its lines, has its profile stored
\* under its name.
C19_NoContentFails ==
    pc = "loaded"
    => \A i \in 1..Len(directory.files) :
          (EndsWith(directory.files[i].name, ".txt")
             /\ directory.files[i].content.t = "str")
          => /\ HasKey(domains, Replace(directory.files[i].name, ".txt", ""))
             /\ Loaded(Replace(directory.files[i].name, ".txt", "")).t = "dict"

\* The file with an item under Name: was read first: the mapping holds the
\* default profile only, and the file after it was not loaded.
C19_Witness ==
    /\ pc = "loaded"
    /\ directory.files = <<NameItemsFile, HeaderFile>>
    /\ domains = PyDict(<<"default">>, <<get_default_domain>>)

\* C20: when the directory was absent or empty as the loader ran, it holds
\* the sample file afterwards and the mapping holds the sample domain.
C20_EmptyOrAbsentSeeded ==
    (pc = "loaded" /\ directory.files \in {<<>>, <<sample_file>>})
    => /\ directory = Directory(TRUE, <<sample_file>>)
       /\ HasKey(domains, "Domain Machine Learning")
       /\ Len(domains.n) > 0

\* The directory was there and empty: nothing was written and the mapping
\* is empty.
C20_Witness ==
    /\ pc = "loaded"
    /\ directory = Directory(TRUE, <<>>)
    /\ domains = PyDict(<<>>, <<>>)

\* The names of the five boards.
BoardNames == {"LinkedIn", "Glassdoor", "Internshala", "Indeed", "Naukri"}

\* The platform of each listing of a list, in order.
PlatformsOf(listings) ==
    [i \in 1..Len(listings) |-> Get(listings[i], "platform").s]

\* C14: fetch_jobs returns a list of at most 5 JobListings whatever each of
\* the five boards gave (a request exception, a parse exception, or 0 to 3
\* matched elements) and however many listings were collected.
C14_AtMostFive ==
    Returned("jobs")
    => /\ result.t = "list"
       /\ Len(result.k) <= 5
       /\ Len(result.k) <= Len(jobs)
       /\ Len(http) = 5
       /\ \A i \in 1..Len(result.k) :
             result.k[i].t = "JobListing" /\ result.k[i] = jobs[i]

\* Every board gave three listings or more, fifteen were collected and
\* five came back.
C14_Witness ==
    /\ Returned("jobs")
    /\ \A b \in 1..5 : http[b].outcome.t = "list" /\ Len(http[b].outcome.k) >= 3
    /\ Len(jobs) = 15
    /\ Len(result.k) = 5

\* C15: when all five boards fail with an error, fetch_jobs returns exactly
\* 5 listings, the first five of the two mock listings per board: two of
\* LinkedIn, two of Glassdoor and one of Internshala, each with the name of
\* a board as its platform.
C15_AllBoardsFail ==
    (Returned("jobs") /\ \A b \in 1..5 : http[b].outcome.t = "raise")
    => /\ Len(jobs) = 10
       /\ Len(result.k) = 5
       /\ PlatformsOf(result.k)
            = <<"LinkedIn", "LinkedIn", "Glassdoor", "Glassdoor", "Internshala">>
       /\ \A i \in 1..5 : /\ Get(result.k[i], "platform").s # ""
                         /\ Get(result.k[i], "platform").s \in BoardNames

\* The fetch for "Data Science" with a request exception at every board
\* came back with five listings.
C15_Witness ==
    /\ Returned("jobs")
    /\ request.domain = "Data Science"
    /\ \A b \in 1..5 : http[b].outcome = PyRaise("RequestException")
    /\ Len(result.k) = 5
    /\ Get(result.k[5], "platform") = PyStr("Internshala")

\* C16: every failure of a board (a request exception, a parse exception,
\* or a page where no element matches the selectors) makes the board
\* contribute exactly two mock listings with its name as platform.
C16_FailureGivesTwoMocks ==
    [][ (pc = "fetch_jobs" /\ Len(http') = Len(http) + 1
           /\ (http'[Len(http')].outcome.t = "raise"
                 \/ http'[Len(http')].outcome = PyList(<<>>)))
        => /\ Len(jobs') = Len(jobs) + 2
           /\ \A i \in (Len(jobs) + 1)..Len(jobs') :
                 Get(jobs'[i], "platform") = PyStr(http'[Len(http')].platform) ]_vars

\* No element matched at any of the five boards: nothing was collected and
\* the empty list came back.
C16_Witness ==
    /\ Returned("jobs")
    /\ \A b \in 1..5 : http[b].outcome = PyList(<<>>)
    /\ jobs = <<>>
    /\ result = PyList(<<>>)

\* Some readable .txt file of the directory has a content whose parse
\* raises: the loop reaches the first such file and ends in the except
\* clause of _load_domains.
LoadRaised ==
    \E i \in 1..Len(directory.files) :
       /\ EndsWith(directory.files[i].name, ".txt")
       /\ directory.files[i].content.t = "str"
       /\ Raised(parse_domain_content(directory.files[i].content.s))

\* The mapping with the default profile as its only entry.
DefaultOnly == PyDict(<<"default">>, <<get_default_domain>>)

\* No file of the directory has its profile in the mapping.
NoFileLoaded == \A i \in 1..Len(domains.n) : domains.n[i] = "default"

\* C21: once loading is over, if it raised the mapping is exactly the
\* default profile under "default", and if no file was loaded the mapping
\* holds the default profile and is not empty.
C21_DefaultWhenFailed ==
    pc = "loaded"
    => /\ LoadRaised => domains = DefaultOnly
       /\ NoFileLoaded => domains = DefaultOnly

\* A well-formed file was loaded before the file with an item under Name:
\* made the parse raise: the mapping holds its profile and the default one.
C21_Witness ==
    /\ pc = "loaded"
    /\ directory.files = <<HeaderFile, NameItemsFile>>
    /\ LoadRaised
    /\ domains.n = <<"Header", "default">>
    /\ Get(domains, "default") = get_default_domain

\* Loading ended without a raise and without a file loaded (the only file
\* is one open() refuses): the mapping is empty.
C21_NothingLoaded ==
    /\ pc = "loaded"
    /\ directory.files = <<LockedFile>>
    /\ ~LoadRaised
    /\ domains = PyDict(<<>>, <<>>)

\* The page of a script run reports an error.
ErrorReported(page) == \E i \in 1..Len(page) : page[i].kind = "error"

\* A key initialize_system refuses: empty, or shorter than 10 characters.
RefusedKey(key) == key = "" \/ Len(key) < MinKeyLen

\* A script run that leaves the session idle and the key field as it was:
\* the run in which "Initialize System" was pressed.
InitializeRun == pc = "idle" /\ pc' = "idle" /\ api_key' = api_key

\* C22: a configuration error leaves the system uninitialized.  A call of
\* initialize_system with a key that is empty or shorter than 10 characters,
\* or one whose construction of the system raises, reports an error and
\* leaves st.session_state.career_system at the value it had: so for every
\* call on the handle of a reachable session, and so for the script run in
\* which the sidebar makes the call; and a run that reports no error with a
\* key that is taken sets the handle to the system built with that key.
C22_ErrorLeavesUninitialized ==
    [][ /\ \A key \in ApiKeys, constructed \in ConstructionOutcomes :
              (RefusedKey(key) \/ Raised(constructed))
              => /\ initialize_system(career_system, key, constructed).career_system
                      = career_system
                 /\ ErrorReported(initialize_system(career_system, key,
                                                    constructed).messages)
        /\ InitializeRun
           => /\ (RefusedKey(api_key) \/ ErrorReported(messages'))
                 => career_system' = career_system
              /\ (api_key # "" /\ RefusedKey(api_key)) => ErrorReported(messages')
              /\ (~RefusedKey(api_key) /\ ~ErrorReported(messages'))
                 => career_system' = CareerRecommendationSystem(api_key) ]_vars

\* In a session that has a system, "Initialize System" was pressed with
\* another key and the construction raised: the failure is on the page and
\* the session still has the system of the first key.
C22_Witness ==
    /\ pc = "idle"
    /\ api_key = "sk-0123456789"
    /\ career_system = CareerRecommendationSystem("AIzaSyD-valid")
    /\ messages = <<KeyFormatMessage,
                    Message("error", "Initialization failed: DefaultCredentialsError")>>

\* In a new session "Initialize System" was pressed with a key of seven
\* characters: the error is on the page and the session has no system.
C22_ShortKeyRefused ==
    /\ pc = "idle"
    /\ api_key = "AIza123"
    /\ career_system = PyNone
    /\ messages = <<InvalidKeyMessage, EnterKeyMessage>>

\* The five boards in the order of the table of JobFetcher.__init__.
BoardOrder == <<"LinkedIn", "Glassdoor", "Internshala", "Indeed", "Naukri">>

\* How many listings the outcome of a board adds: two mock listings for a
\* raise, else one per matched element up to three.
Contribution(outcome) ==
    IF Raised(outcome) THEN 2 ELSE Min({3, Len(outcome.k)})

\* How many listings the first b requests of a log added.
RECURSIVE Contributed(_, _)
Contributed(log, b) ==
    IF b = 0 THEN 0 ELSE Contributed(log, b - 1) + Contribution(log[b].outcome)

\* The board whose request added listing i of the collected ones.
BoardOf(log, i) ==
    Min({b \in 1..Len(log) : i <= Contributed(log, b)})

\* A fetch is under way or has returned and is not rendered yet.
Fetching == pc = "fetch_jobs" \/ Returned("jobs")

\* C23: fetch_jobs requests the boards one after another in the order
\* LinkedIn, Glassdoor, Internshala, Indeed, Naukri.  At every moment of a
\* fetch the log of requests is a prefix of that order with no board twice,
\* and the listings collected are those of the boards requested so far, each
\* tagged with its board, so that a board is requested only after the
\* outcome of the one before was appended; a step requests one board at
\* most; and the fetch returns only after all five were requested, however
\* many listings the first boards gave.
C23_BoardsInOrder ==
    [][ /\ Fetching
           => /\ Len(http) <= 5
              /\ \A b \in 1..Len(http) :
                    /\ http[b].platform = BoardOrder[b]
                    /\ http[b].url = board_url(request.domain, b)
              /\ Len(jobs) = Contributed(http, Len(http))
              /\ \A i \in 1..Len(jobs) :
                    Get(jobs[i], "platform") = PyStr(BoardOrder[BoardOf(http, i)])
        /\ (pc = "fetch_jobs" /\ http' # http)
           => /\ Len(http') = Len(http) + 1
              /\ SubSeq(http', 1, Len(http)) = http
              /\ SubSeq(jobs', 1, Len(jobs)) = jobs
              /\ pc' = "fetch_jobs"
        /\ (pc = "fetch_jobs" /\ pc' = "returned")
           => /\ Len(http) = 5
              /\ http' = http ]_vars

\* The first two boards gave three listings each, so that six were
\* collected, and the three boards after them were requested all the same.
C23_Witness ==
    /\ Returned("jobs")
    /\ \A b \in 1..2 : http[b].outcome.t = "list" /\ Len(http[b].outcome.k) = 3
    /\ \A b \in 3..5 : http[b].outcome = PyRaise("RequestException")
    /\ <<http[3].platform, http[4].platform, http[5].platform>>
         = <<"Internshala", "Indeed", "Naukri">>
    /\ Len(jobs) = 12

\* C24: when the first reply of generate_career_guidance is empty, or the
\* first call raises, the fallback record of the request is returned in
\* that step with no second call: the only prompt sent is the first one,
\* and the simplified prompt is waited for only after a first reply that is
\* a text, not empty, whose parse failed.
C24_NoRetryWhenEmptyOrRaised ==
    [][ /\ (pc = "first_call" /\ (Raised(response') \/ response' = PyStr("")))
           => /\ pc' = "returned"
              /\ calls = <<"guidance_prompt">>
              /\ calls' = calls
              /\ json_error' = PyNone
              /\ result' = generate_fallback_guidance(request.domain, request.level,
                                                      request.domain_knowledge)
        /\ pc' = "second_call"
           => /\ pc = "first_call"
              /\ response'.t = "str"
              /\ response'.s # ""
        /\ (Returned("guidance") /\ (Raised(response) \/ response = PyStr(""))
              /\ Len(calls) = 1)
           => result = RequestFallback ]_vars

\* The first call raised and the fallback came back after that one call,
\* with no parse error recorded.
C24_Witness ==
    /\ Returned("guidance")
    /\ response = PyRaise("429 Quota exceeded")
    /\ calls = <<"guidance_prompt">>
    /\ json_error = PyNone
    /\ result = RequestFallback

\* The first reply was empty and the fallback came back after that one
\* call.
C24_EmptyReply ==
    /\ Returned("guidance")
    /\ response = PyStr("")
    /\ calls = <<"guidance_prompt">>
    /\ json_error = PyNone
    /\ result = RequestFallback

\* The listings a fetch for domain collects when its boards end as the log
\* says, from board b on with the generator in state r.
RECURSIVE ReplayJobs(_, _, _, _)
ReplayJobs(domain, log, b, r) ==
    IF b > Len(log) THEN <<>>
    ELSE board_jobs(domain, Platforms[b], board_url(domain, b), log[b].outcome, r)
           \o ReplayJobs(domain, log, b + 1,
                         IF Raised(log[b].outcome)
                         THEN after_mock_job(after_mock_job(r)) ELSE r)

\* What the request in progress is to return, from its own arguments and
\* the outcomes of its own calls alone.
RequestResults ==
    IF request.op = "guidance"
    THEN {RequestFallback}
           \cup (IF response.t = "str" /\ response.s # ""
                 THEN {guidance_from_text(response.s)} ELSE {})
    ELSE IF request.op = "ask"
        THEN {IF Raised(response) THEN PyStr("Error processing query: " \o response.s)
              ELSE response}
    ELSE {first_jobs(ReplayJobs(request.domain, http, 1, seed)) : seed \in RandomSeeds}

Commented(object) == response = PyStr(object \o " Hope this helps!")

\* C26: a reply that is a valid JSON object followed by commentary with no
\* brace is extracted to the value json.loads gives for the object alone:
\* the repair of the span changes nothing of it, bare true, false and null
\* and the commas inside its strings included.
C26_RepairKeepsValidJson ==
    \A object \in CommentedObjects :
       Commented(object)
       => /\ ~Raised(json_loads(object))
          /\ json_span(response.s) = object
          /\ extract_json_from_response(response.s) = json_loads(object)

\* The commented reply of a course with "certification": true and
\* "price": null came back from a single call as a record whose price is
\* the text "null": the repair put both words in quotes, of which
\* validation turned "true" into True again and kept "null" as a string.
C26_Witness ==
    /\ Returned("guidance")
    /\ Commented(ObjectText({4}))
    /\ Len(calls) = 1
    /\ Get(Get(json_loads(ObjectText({4})), "recommended_courses").k[1], "price") = PyNone
    /\ Get(Get(extract_json_from_response(response.s), "recommended_courses").k[1],
           "certification") = PyStr("true")
    /\ Get(Get(result, "recommended_courses").k[1], "price") = PyStr("null")

\* The commented reply whose overview holds ",]": the comma is gone from
\* the overview of the record.
C26_CommaInString ==
    /\ Returned("guidance")
    /\ Commented(CommaInStringReply)
    /\ Get(result, "domain_overview") = PyStr("Lists end with ]")

\* The commented reply whose overview holds ": ask,": the repaired span no
\* longer parses and the request went to the simplified prompt.
C26_ColonInString ==
    /\ pc = "second_call"
    /\ Commented(ColonInStringReply)
    /\ json_error = PyRaise("JSONDecodeError")

\* The state of the generator after the boards of the log from board b on,
\* when it stood at r before them: each failure draws two mock listings.
RECURSIVE GeneratorAfter(_, _, _)
GeneratorAfter(log, b, r) ==
    IF b > Len(log) THEN r
    ELSE GeneratorAfter(log, b + 1,
                        IF Raised(log[b].outcome)
                        THEN after_mock_job(after_mock_job(r)) ELSE r)

\* The first n elements of a sequence, all of it when it has fewer.
FirstOf(seq, n) == SubSeq(seq, 1, IF Len(seq) < n THEN Len(seq) ELSE n)

\* C27: the list fetch_jobs returns is the first five elements of the
\* concatenation, in the order of the boards, of what each board
\* contributed (its scraped listings, or its two mock listings drawn from
\* the generator as it stood).  So with all boards failing the platforms are
\* LinkedIn, LinkedIn, Glassdoor, Glassdoor, Internshala, and a listing of
\* Indeed or Naukri is in the list only if the first three boards together
\* contributed fewer than five.
C27_FirstFiveInBoardOrder ==
    Returned("jobs")
    => /\ \E seed \in RandomSeeds :
             /\ GeneratorAfter(http, 1, seed) = rng
             /\ result = PyList(FirstOf(ReplayJobs(request.domain, http, 1, seed), 5))
       /\ result.k = FirstOf(jobs, 5)
       /\ (\A b \in 1..5 : Raised(http[b].outcome))
          => PlatformsOf(result.k)
               = <<"LinkedIn", "LinkedIn", "Glassdoor", "Glassdoor", "Internshala">>
       /\ (\E i \in 1..Len(result.k) :
              Get(result.k[i], "platform").s \in {"Indeed", "Naukri"})
          => Contributed(http, 3) < 5

\* LinkedIn failed, Glassdoor and Internshala matched nothing, Indeed gave
\* two listings and Naukri failed: the list is two mock listings of
\* LinkedIn, the two of Indeed and one mock listing of Naukri.
C27_Witness ==
    /\ Returned("jobs")
    /\ http[1].outcome = PyRaise("RequestException")
    /\ http[2].outcome = PyList(<<>>)
    /\ http[3].outcome = PyList(<<>>)
    /\ http[4].outcome = PyList(<<FullElement, BareElement>>)
    /\ http[5].outcome = PyRaise("Exception")
    /\ PlatformsOf(result.k) = <<"LinkedIn", "LinkedIn", "Indeed", "Indeed", "Naukri">>
    /\ Len(jobs) = 6

\* A request is under way or has left something behind: a prompt sent, a
\* board requested, or a handler that has not returned to the page.
RequestRan == pc # "idle" \/ calls # <<>> \/ http # <<>> \/ request # NoRequest

\* C28: in a session no guidance generation, job fetch or question runs,
\* and so no prompt is sent and no board is requested, while the session
\* has no system; the session gets its system only in a script run of
\* "Initialize System" with a key that is taken and a construction that
\* succeeds; and once it has one, no step takes it away, a failed
\* initialization included.
C28_NothingBeforeInitialized ==
    [][ /\ RequestRan => career_system # PyNone
        /\ career_system = PyNone
           => /\ pc' = "idle"
              /\ calls' = <<>> /\ http' = <<>>
        /\ (career_system = PyNone /\ career_system' # PyNone)
           => /\ InitializeRun
              /\ ~RefusedKey(api_key)
              /\ career_system' = CareerRecommendationSystem(api_key)
              /\ \E i \in 1..Len(messages') : messages'[i] = InitializedMessage
        /\ career_system # PyNone => career_system' # PyNone ]_vars

\* The session has the system of the first key, and the key of seven
\* characters typed since was refused by "Initialize System".
C28_Witness ==
    /\ pc = "idle"
    /\ api_key = "AIza123"
    /\ career_system = CareerRecommendationSystem("AIzaSyD-valid")
    /\ messages = <<InvalidKeyMessage>>

\* A guidance request waits for its first reply in a session whose key
\* field was emptied after the initialization.
C28_RequestAfterInitialized ==
    /\ pc = "first_call"
    /\ api_key = ""
    /\ career_system = CareerRecommendationSystem("sk-0123456789")

\* The names and the prerequisites of the entries of the roadmap, in order.
RoadmapNames == [i \in 1..Len(Roadmap) |-> Get(Roadmap[i], "skill_name")]

RoadmapPrerequisites == [i \in 1..Len(Roadmap) |-> Get(Roadmap[i], "prerequisites")]

\* C29: the skill_roadmap of main.py's fallback has between one and five
\* entries.  A profile with N >= 1 core skills gives min(N, 5) entries named
\* after its first core skills, in order, the first without prerequisites
\* and each later one with the first core skill as its only prerequisite; a
\* profile without core skills gives the three placeholder entries, none
\* with a prerequisite.
C29_RoadmapOneToFive ==
    (Returned("guidance") /\ result = RequestFallback)
    => /\ Len(Roadmap) >= 1
       /\ Len(Roadmap) <= 5
       /\ RoadmapPrerequisites[1] = PyList(<<>>)
       /\ Len(CoreSkills) >= 1
          => /\ RoadmapNames = FirstOf(CoreSkills, 5)
             /\ \A i \in 2..Len(Roadmap) :
                   RoadmapPrerequisites[i] = PyList(<<CoreSkills[1]>>)
       /\ Len(CoreSkills) = 0
          => /\ RoadmapNames = <<PyStr(request.domain \o " Fundamentals"),
                                 PyStr("Problem Solving"), PyStr("Technical Skills")>>
             /\ \A i \in 1..3 : RoadmapPrerequisites[i] = PyList(<<>>)

\* An empty reply sent a profile of six core skills to the fallback: five
\* entries, the fifth with Python, the first core skill, as prerequisite.
C29_Witness ==
    /\ Returned("guidance")
    /\ response = PyStr("")
    /\ result = RequestFallback
    /\ Len(CoreSkills) = 6
    /\ Len(Roadmap) = 5
    /\ RoadmapNames[5] = CoreSkills[5]
    /\ RoadmapPrerequisites[5] = PyList(<<PyStr("Python")>>)

\* The fallback for a domain the knowledge base lacks: three placeholders.
C29_Placeholders ==
    /\ Returned("guidance")
    /\ request.domain = "None"
    /\ result = RequestFallback
    /\ Len(Roadmap) = 3
    /\ RoadmapNames[1] = PyStr("None Fundamentals")

====
